---- MODULE Spec2Model ----
(***************************************************************************)
(* A model of demo-gen's orchestration engine: the deterministic activity  *)
(* planner, the scorecard generator, the SQLite idempotency ledger and the *)
(* runner that applies plans to Salesforce sequentially or from a thread   *)
(* pool.                                                                   *)
(*                                                                         *)
(* Time is counted in minutes since an arbitrary epoch; an ISO timestamp   *)
(* is the minute count, a %Y-%m-%d date is the day count.  Two readings of *)
(* the wall clock taken by different runs differ by at least one unit.     *)
(***************************************************************************)
EXTENDS Integers, Sequences, FiniteSets, Bags, TLC

\* ------------------------------------------------------------------ bounds
NumOpps == 2     \* largest max_opps, and most opportunities the query returns
NumRuns == 2     \* runs started against the same run directory
MaxSeed == 9     \* largest seed a planner is built with on its own
MaxFaults == 1   \* Salesforce calls and SQLite calls that fail, per behaviour
MaxLedgerRows == 2  \* rows a StateStore called on its own comes to hold

\* ------------------------------------------------------- deterministic RNG
\* random.Random(f"{seed}:{id}"): a stream fixed by the seed string.  The
\* Mersenne Twister is abstracted by a small congruential generator; every
\* call of randint/choice/sample consumes one draw.
RngInit(seed, id) == (seed * 7 + id * 13 + 5) % 101

RngNext(s) == (s * 37 + 11) % 101

RECURSIVE RngAt(_, _)
RngAt(s, k) == IF k = 0 THEN RngNext(s) ELSE RngAt(RngNext(s), k - 1)

\* a variant of randint whose range is one too long
randint_above(lo, hi, r) == lo + (r % (hi - lo + 2))

randint(lo, hi, r) == lo + (r % (hi - lo + 1))

choice(seq, r) == seq[1 + (r % Len(seq))]

\* a variant of sample that draws with replacement (rng.choices)
choices(seq, n, r) == [i \in 1..n |-> seq[1 + (r % Len(seq))]]

\* rng.sample(population, n): n distinct members, in an order fixed by the draw
sample(seq, n, r) == [i \in 1..n |-> seq[1 + ((r + i - 1) % Len(seq))]]

Min(a, b) == IF a <= b THEN a ELSE b

Max(a, b) == IF a >= b THEN a ELSE b

\* ------------------------------------------------------- activity planner
meeting_subjects ==
  << "Discovery Call", "Product Demo", "Technical Deep Dive",
     "Stakeholder Alignment", "Executive Briefing",
     "Solution Architecture Review", "Business Requirements Discussion",
     "Evaluation Planning", "Security & Compliance Review",
     "Pricing Discussion", "Implementation Planning",
     "Next Steps & Timeline Review" >>

email_subjects ==
  << "Re: Follow-up from our call", "Demo recording and materials",
     "Next steps and action items", "Proposal for review",
     "Re: Technical questions", "Scheduling our next meeting",
     "Additional resources", "Re: Security documentation",
     "Pricing information", "Re: Timeline and implementation",
     "Introduction to our team", "Re: Contract review" >>

MinutesPerHour == 60
MinutesPerDay == 1440

\* The activity configuration of the runs (ActivityConfig,
\* MeetingsConfig, EmailsConfig): small windows and counts.
RunActivityConfig ==
  [ past_days |-> 2, future_days |-> 1,
    past_min |-> 1, past_max |-> 2, future_min |-> 0, future_max |-> 1,
    duration_minutes |-> << 30, 60 >>,
    email_min |-> 1, email_max |-> 2,
    participant_roles |-> << "Champion", "Economic Buyer" >> ]

\* datetime.utcnow() + delta, isoformat() + "Z"
isoformat(now, days, hours) == now + days * MinutesPerDay + hours * MinutesPerHour

\* (datetime.utcnow() + delta).strftime("%Y-%m-%d")
strftime_date(now, days) == (now + days * MinutesPerDay) \div MinutesPerDay

\* _generate_meeting: the draws d+1..d+5 of the opportunity's stream
generate_meeting(c, s, d, when, index, total, now) ==
  LET subject == choice(meeting_subjects, RngAt(s, d))
      duration == choice(c.duration_minutes, RngAt(s, d + 1))
      window == IF when = "past" THEN c.past_days ELSE c.future_days
      days == (window * (index + 1)) \div total
      hours_offset == randint(9, 17, RngAt(s, d + 2))
      num_participants ==
        randint(1, Min(3, Len(c.participant_roles)), RngAt(s, d + 3))
  IN  [ subject |-> subject,
        start_datetime |->
          isoformat(now, IF when = "past" THEN -days ELSE days, hours_offset),
        duration_minutes |-> duration,
        when |-> when,
        participants |->
          sample(c.participant_roles, num_participants, RngAt(s, d + 4)) ]

\* _generate_email: the draws d+1..d+4 of the opportunity's stream
generate_email(c, s, d, when, now) ==
  LET subject == choice(email_subjects, RngAt(s, d))
      window == IF when = "past" THEN c.past_days ELSE c.future_days
      days == randint(1, window, RngAt(s, d + 1))
      num_participants ==
        randint(1, Min(2, Len(c.participant_roles)), RngAt(s, d + 2))
  IN  [ subject |-> subject,
        activity_date |->
          strftime_date(now, IF when = "past" THEN -days ELSE days),
        when |-> when,
        participants |->
          sample(c.participant_roles, num_participants, RngAt(s, d + 3)) ]

\* a variant of past_email_count that rounds to the nearest integer
past_email_rounded(n) == (n * 85 + 50) \div 100

\* create_plan: past_email_ratio = 0.85, int(num_emails * past_email_ratio)
past_email_count(n) == (n * 85) \div 100

\* create_plan(opportunity) of a planner built with (config c, seed), run
\* while the wall clock reads `now`
create_plan(c, seed, opp_id, now) ==
  LET s == RngInit(seed, opp_id)
      num_past_meetings == randint(c.past_min, c.past_max, RngAt(s, 0))
      num_future_meetings == randint(c.future_min, c.future_max, RngAt(s, 1))
      num_emails == randint(c.email_min, c.email_max, RngAt(s, 2))
      num_meetings == num_past_meetings + num_future_meetings
      num_past_emails == past_email_count(num_emails)
  IN  [ opportunity_id |-> opp_id,
        meetings |->
          [ i \in 1..num_meetings |->
              IF i <= num_past_meetings
                THEN generate_meeting(c, s, 3 + 5 * (i - 1), "past",
                                      i - 1, num_past_meetings, now)
                ELSE generate_meeting(c, s, 3 + 5 * (i - 1), "future",
                                      i - 1 - num_past_meetings,
                                      num_future_meetings, now) ],
        emails |->
          [ i \in 1..num_emails |->
              IF i <= num_past_emails
                THEN generate_email(c, s, 3 + 5 * num_meetings + 4 * (i - 1),
                                    "past", now)
                ELSE generate_email(c, s, 3 + 5 * num_meetings + 4 * (i - 1),
                                    "future", now) ] ]


\* ------------------------------------------------------ scorecard client
meddicc_questions ==
  << "metrics", "economic_buyer", "decision_criteria", "decision_process",
     "identify_pain", "champion", "competition" >>

\* The scorecard configuration of the runs (ScorecardsConfig);
\* coverage_target is in percent, confidences are in hundredths.
RunScorecardsConfig ==
  [ templates |-> << "MEDDICC" >>, coverage_target |-> 30,
    confidence_floor |-> 55, mode |-> "heuristic" ]

\* _load_templates: only MEDDICC is registered
load_templates(c) ==
  [ t \in { c.templates[n] : n \in 1..Len(c.templates) } \cap { "MEDDICC" }
      |-> meddicc_questions ]

\* create_or_get_scorecard (not a dry run): f"sc_{opportunity_id}_{template}".lower()
create_or_get_scorecard(opp_id, template) == << "sc", opp_id, template >>

\* the number a scorecard id contributes to the seed string of its stream
ScorecardKey(opp_id) == 50 + opp_id

\* _generate_confidence: round(rng.uniform(0.5, 0.95), 2), in hundredths
generate_confidence(r) == 50 + (r % 46)

\* the loop of populate_scorecard over questions_to_answer[n..], the next
\* draw of the scorecard's stream being draw d
RECURSIVE populate_from(_, _, _, _, _)
populate_from(c, s, qs, n, d) ==
  IF n > Len(qs) THEN << >>
  ELSE LET confidence == generate_confidence(RngAt(s, d))
       IN  IF confidence < c.confidence_floor
             THEN populate_from(c, s, qs, n + 1, d + 1)
             ELSE << [ question_id |-> qs[n], confidence |-> confidence,
                       answer |-> RngAt(s, d + 1) % 3 ] >>
                  \o populate_from(c, s, qs, n + 1, d + 2)

populate_scorecard(c, seed, opp_id, template) ==
  LET questions == load_templates(c)[template]
      s == RngInit(seed, ScorecardKey(opp_id))
      num_questions_to_answer == (Len(questions) * c.coverage_target) \div 100
      questions_to_answer == sample(questions, num_questions_to_answer, RngAt(s, 0))
  IN  populate_from(c, s, questions_to_answer, 1, 1)

\* upsert_scorecard; coverage (len(answers) / len(questions)) is in thousandths
upsert_scorecard(c, seed, opp_id, template) ==
  LET answers == populate_scorecard(c, seed, opp_id, template)
  IN  [ scorecard_id |-> create_or_get_scorecard(opp_id, template),
        template |-> template,
        opportunity_id |-> opp_id,
        answers |-> answers,
        coverage |-> (Len(answers) * 1000) \div Len(load_templates(c)[template]) ]


\* ------------------------------------------------------------ run state
VARIABLES
  cfg,          \* the runner's arguments and the config: concurrency, max_opps, tag_mode, seed, templates, dry_run
  sfOpps,       \* the opportunities the Salesforce query returns, in order
  runNo,        \* 1 for the first run() against the run directory, 2 for the second, ...
  clock,        \* datetime.utcnow()
  mainPc,       \* where run() is: "select", "dispatch", "done"
  runStatus,    \* run.json's status: "running", "completed", "failed"
  raised,       \* run() re-raised an exception to its caller
  selected,     \* the list _select_opportunities returned
  queue,        \* opportunities not yet handed to _process_opportunity
  cand,         \* per opportunity, how far its processing got in this run
  thr,          \* per thread (0: the caller's, 1..: the pool's), its frame of _process_opportunity
  ledger,       \* state.sqlite: the four tables
  connOpen,     \* StateStore.conn is open
  external,     \* the Event and Task records Salesforce holds
  createCalls,  \* create_event / create_task calls made in this run
  stats,        \* DemoGenLogger.stats of this run
  errors,       \* errors.jsonl, as a bag of entries
  events,       \* events.jsonl, as a bag of entries
  tlsClients,   \* threads whose threading.local holds a SalesforceClient
  faults,       \* the create calls and SQLite calls that failed for an outside reason
  ledgerAtStart, \* the ledger when this run started
  plans,        \* the plans create_plan returned to a caller of its own, with the clock reading
  cleanup,      \* the frame of cleanup_run (the reset command)
  ledgerOps,    \* the record* calls made on a StateStore by a caller of its own
  built,        \* per thread, the SalesforceClients _get_sf_client constructed in it
  queryCalls,   \* query_opportunities calls made in this run
  statusWrites  \* times run.json was written since the runner was built

vars == << cfg, sfOpps, runNo, clock, mainPc, runStatus, raised, selected, queue,
           cand, thr, ledger, connOpen, external, createCalls, stats, errors,
           events, tlsClients, faults, ledgerAtStart, plans, cleanup, ledgerOps,
           built, queryCalls, statusWrites >>

Opps == 1..NumOpps

\* thread 0 is the one that built the runner and calls run(); a pool has at
\* most two workers
Workers == { 1, 2 }
Threads == { 0 } \cup Workers
RunId == "run-1"
RunSeed == 99

\* DemoGenLogger.__init__: the counters of a new run
NewStats ==
  [ opps_selected |-> 0, meetings_created |-> 0, emails_created |-> 0,
    scorecards_created |-> 0, scorecard_answers_written |-> 0,
    failures |-> 0, coverage |-> 0 ]

EmptyLedger ==
  [ opportunities |-> {}, activities |-> {}, scorecards |-> {},
    scorecard_answers |-> {} ]

Idle ==
  [ opp |-> 0, pc |-> "idle", kind |-> "none", i |-> 0, a |-> 0,
    stat |-> "none", tmp |-> 0, ret |-> "none" ]

\* DemoGenRunner.__init__: the ledger exists in external_state mode, and not
\* in a dry run
HasStore == ~cfg.tag_mode /\ ~cfg.dry_run

\* config.scorecards.templates of the run
Templates == cfg.templates

\* the template is in the registry _load_templates built
Registered(name) ==
  name \in DOMAIN load_templates([ RunScorecardsConfig EXCEPT !.templates = Templates ])

\* run(): the pool is used when concurrency > 1 and there are several opportunities
Pooled == cfg.concurrency > 1 /\ Len(selected) > 1

\* the wall-clock readings runs can start at
ClockValues == { a + b * MinutesPerDay : a \in 0..(NumRuns - 1), b \in 0..(NumRuns - 1) }

\* the plans and scorecards of the run's planner and scorecard client, tabulated
PlanTable ==
  [ o \in Opps, now \in ClockValues |-> create_plan(RunActivityConfig, RunSeed, o, now) ]

ScorecardTable ==
  [ o \in Opps, name \in DOMAIN load_templates(RunScorecardsConfig) |->
      upsert_scorecard(RunScorecardsConfig, RunSeed, o, name) ]

Plan(opp) == PlanTable[opp, clock]

Items(opp, kind) == IF kind = "meeting" THEN Plan(opp).meetings ELSE Plan(opp).emails

Timestamp(item, kind) ==
  IF kind = "meeting" THEN item.start_datetime ELSE item.activity_date

Scorecard(opp, j) == ScorecardTable[opp, Templates[j]]

\* ------------------------------------------------------------- the ledger
\* _generate_activity_signature: md5 of f"{activity_type}:{timestamp}:{subject}",
\* taken as collision free: the digest stands for the string it digests
generate_activity_signature(activity_type, timestamp, subject) ==
  << activity_type, timestamp, subject >>

\* a variant of has_opportunity that never finds the row
has_opportunity_never(l, run_id, opp_id) == FALSE

has_opportunity(l, run_id, opp_id) ==
  \E r \in l.opportunities : r.run_id = run_id /\ r.opp_id = opp_id

\* INSERT OR IGNORE on PRIMARY KEY (run_id, opp_id)
record_opportunity(l, run_id, opp_id, selected_at) ==
  IF has_opportunity(l, run_id, opp_id) THEN l
  ELSE [ l EXCEPT !.opportunities = @ \cup
           { [ run_id |-> run_id, opp_id |-> opp_id, selected_at |-> selected_at ] } ]

has_activity(l, run_id, opp_id, activity_type, timestamp, subject) ==
  \E r \in l.activities :
    /\ r.run_id = run_id
    /\ r.opp_id = opp_id
    /\ r.signature = generate_activity_signature(activity_type, timestamp, subject)

\* a variant of record_activity that is INSERT OR REPLACE
replace_activity(l, run_id, opp_id, activity_type, timestamp, subject, activity_id, created_at) ==
  [ l EXCEPT !.activities =
      { r \in @ : ~(/\ r.run_id = run_id
                    /\ r.opp_id = opp_id
                    /\ r.signature
                         = generate_activity_signature(activity_type, timestamp, subject)) }
      \cup { [ run_id |-> run_id, opp_id |-> opp_id,
               signature |->
                 generate_activity_signature(activity_type, timestamp, subject),
               activity_id |-> activity_id, activity_type |-> activity_type,
               created_at |-> created_at ] } ]

\* INSERT OR IGNORE on PRIMARY KEY (run_id, opp_id, signature)
record_activity(l, run_id, opp_id, activity_type, timestamp, subject, activity_id, created_at) ==
  IF has_activity(l, run_id, opp_id, activity_type, timestamp, subject) THEN l
  ELSE [ l EXCEPT !.activities = @ \cup
           { [ run_id |-> run_id, opp_id |-> opp_id,
               signature |->
                 generate_activity_signature(activity_type, timestamp, subject),
               activity_id |-> activity_id, activity_type |-> activity_type,
               created_at |-> created_at ] } ]

has_scorecard(l, run_id, opp_id, template) ==
  \E r \in l.scorecards :
    r.run_id = run_id /\ r.opp_id = opp_id /\ r.template = template

\* INSERT OR IGNORE on PRIMARY KEY (run_id, opp_id, template)
record_scorecard(l, run_id, opp_id, scorecard_id, template, created_at) ==
  IF has_scorecard(l, run_id, opp_id, template) THEN l
  ELSE [ l EXCEPT !.scorecards = @ \cup
           { [ run_id |-> run_id, opp_id |-> opp_id, scorecard_id |-> scorecard_id,
               template |-> template, created_at |-> created_at ] } ]

has_scorecard_answer(l, run_id, scorecard_id, question_id) ==
  \E r \in l.scorecard_answers :
    r.run_id = run_id /\ r.scorecard_id = scorecard_id /\ r.question_id = question_id

\* INSERT OR IGNORE on PRIMARY KEY (run_id, scorecard_id, question_id)
record_scorecard_answer(l, run_id, scorecard_id, question_id, confidence, created_at) ==
  IF has_scorecard_answer(l, run_id, scorecard_id, question_id) THEN l
  ELSE [ l EXCEPT !.scorecard_answers = @ \cup
           { [ run_id |-> run_id, scorecard_id |-> scorecard_id,
               question_id |-> question_id, confidence |-> confidence,
               created_at |-> created_at ] } ]

\* sqlite3.connect() in StateStore.__init__ keeps check_same_thread=True: the
\* connection made by the thread that built the runner (thread 0) raises
\* ProgrammingError in any other thread, and once closed in every thread
LedgerUsable(t) == connOpen /\ t = 0


\* ------------------------------------------------------ runner: helpers
\* a line appended to events.jsonl or errors.jsonl; the DryRunLogger's log_event
\* and log_error write none
LogEntry(what, opp, item) ==
  IF cfg.dry_run THEN EmptyBag
  ELSE SetToBag({ [ run |-> runNo, what |-> what, opp |-> opp, item |-> item ] })

ActivityPc == IF HasStore THEN "has_activity" ELSE "create_activity"

ScorecardPc == IF HasStore THEN "has_scorecard" ELSE "upsert_scorecard"

At(w, pc, kind, i, a) ==
  [ Idle EXCEPT !.opp = w.opp, !.pc = pc, !.kind = kind, !.i = i, !.a = a ]

\* _create_scorecards' loop from template j on, then the end of the try block
\* of _process_opportunity
ScorecardsFrom(w, j) ==
  IF j <= Len(Templates) THEN At(w, ScorecardPc, "scorecard", j, 0)
  ELSE IF HasStore THEN At(w, "record_opportunity", "none", 0, 0)
  ELSE Idle

\* _create_activities' loops: the meetings, then the emails
EmailsFrom(w, i) ==
  IF i <= Len(Plan(w.opp).emails) THEN At(w, ActivityPc, "email", i, 0)
  ELSE ScorecardsFrom(w, 1)

\* a variant of MeetingsFrom that leaves the rest of the meetings for later
\* and goes on with the emails
EmailsFirst(w, i) == EmailsFrom(w, 1)

MeetingsFrom(w, i) ==
  IF i <= Len(Plan(w.opp).meetings) THEN At(w, ActivityPc, "meeting", i, 0)
  ELSE EmailsFrom(w, 1)

AfterActivity(w) ==
  IF w.kind = "meeting" THEN MeetingsFrom(w, w.i + 1) ELSE EmailsFrom(w, w.i + 1)

\* the loop over scorecard_data["answers"], then the coverage update
AnswersFrom(w, a) ==
  IF a <= Len(Scorecard(w.opp, w.i).answers) THEN At(w, "write_answer", "scorecard", w.i, a)
  ELSE At(w, "coverage_read", "scorecard", w.i, 0)

\* a variant of AfterCreateError in which the exception of the create call
\* leaves _create_meeting / _create_email and reaches _process_opportunity
RaiseAfterCreateError(w) == [ Idle EXCEPT !.opp = w.opp, !.pc = "except" ]

\* a variant of AfterCreateError in which the except clause falls through to
\* the record_activity call
RecordAfterCreateError(w) ==
  IF HasStore THEN At(w, "record_activity", w.kind, w.i, 0) ELSE AfterActivity(w)

\* the except clause around create_event / create_task returns: the loop of
\* _create_activities goes on with the next item
AfterCreateError(w) == AfterActivity(w)

\* a variant of AfterGenerationError in which the exception of
\* upsert_scorecard leaves _create_scorecards and reaches _process_opportunity
RaiseAfterGenerationError(w) == [ Idle EXCEPT !.opp = w.opp, !.pc = "except" ]

\* the except clause around upsert_scorecard ends with continue: the loop of
\* _create_scorecards goes on with the next template
AfterGenerationError(w) == ScorecardsFrom(w, w.i + 1)

\* where a frame goes on after the counter update it is in the middle of
Continue(w) ==
  CASE w.ret = "after_create" ->
         IF HasStore THEN At(w, "record_activity", w.kind, w.i, 0) ELSE AfterActivity(w)
    [] w.ret = "after_error" -> AfterCreateError(w)
    [] w.ret = "after_upsert" ->
         IF HasStore THEN At(w, "record_scorecard", "scorecard", w.i, 0)
         ELSE AnswersFrom(w, 1)
    [] w.ret = "after_answer" ->
         IF HasStore THEN At(w, "record_answer", "scorecard", w.i, w.a)
         ELSE AnswersFrom(w, w.a + 1)
    [] w.ret = "after_scorecard" -> AfterGenerationError(w)
    [] OTHER -> Idle

\* stats[name] += 1, begun: the value is read here and written by IncWrite
BeginInc(w, name, ret) ==
  [ w EXCEPT !.pc = "inc_write", !.stat = name, !.tmp = stats[name], !.ret = ret ]

\* stats[name] += 1 by thread t, which then goes on at ret.  With the pool's
\* threads around, the read and the write are two steps; in the run's own
\* thread, which works alone, nothing comes between them
IncrementStat(t, w, name, ret) ==
  IF Pooled
    THEN /\ thr' = [ thr EXCEPT ![t] = BeginInc(w, name, ret) ]
         /\ UNCHANGED stats
    ELSE /\ stats' = [ stats EXCEPT ![name] = @ + 1 ]
         /\ thr' = [ thr EXCEPT ![t] = Continue([ w EXCEPT !.ret = ret ]) ]

\* a call that failed for a reason outside the program
Fault(w, what) ==
  [ run |-> runNo, opp |-> w.opp, what |-> what, item |-> << w.kind, w.i, w.a >> ]

\* one counter for both kinds of activity
MeetingStat(kind) == "meetings_created"

StatOf(kind) == IF kind = "meeting" THEN "meetings_created" ELSE "emails_created"

StageOf(kind) == IF kind = "meeting" THEN "meeting_creation" ELSE "email_creation"

ObjectOf(kind) == IF kind = "meeting" THEN "Event" ELSE "Task"

\* the id Salesforce gives the record a create call makes
NewId(w) == << runNo, w.opp, w.kind, w.i >>

LedgerPcs ==
  { "has_opportunity", "has_activity", "record_activity", "has_scorecard",
    "record_scorecard", "record_answer", "record_opportunity" }

\* cleanup_run has not been called
NoCleanup ==
  [ pc |-> "none", todo |-> {}, targets |-> {},
    deleted |-> [ Event |-> 0, Task |-> 0 ], attempts |-> EmptyBag ]

\* ------------------------------------------------------ runner: actions
\* a runner just built in an empty run directory
Fresh ==
  /\ runNo = 1
  /\ clock = 0
  /\ mainPc = "select"
  /\ runStatus = "running"
  /\ raised = FALSE
  /\ selected = << >>
  /\ queue = << >>
  /\ cand = [ o \in Opps |-> "Pending" ]
  /\ thr = [ t \in Threads |-> Idle ]
  /\ ledger = EmptyLedger
  /\ connOpen = HasStore
  /\ external = {}
  /\ createCalls = 0
  /\ stats = NewStats
  /\ errors = EmptyBag
  /\ events = EmptyBag
  /\ tlsClients = {}
  /\ faults = {}
  /\ ledgerAtStart = EmptyLedger
  /\ plans = << >>
  /\ cleanup = NoCleanup
  /\ ledgerOps = EmptyLedger
  /\ built = [ t \in Threads |-> 0 ]
  /\ queryCalls = 0
  /\ statusWrites = IF cfg.dry_run THEN 0 ELSE 1

\* the query returns up to NumOpps opportunities; max_opps is NumOpps, or one
\* less than the query returns
Init ==
  /\ sfOpps \in { [ i \in 1..n |-> i ] : n \in 0..NumOpps }
  /\ cfg \in [ concurrency : { 1, 2 }, max_opps : { NumOpps - 1, NumOpps },
               tag_mode : BOOLEAN, seed : { RunSeed },
               templates : { RunScorecardsConfig.templates }, dry_run : { FALSE } ]
  /\ cfg.max_opps < NumOpps => Len(sfOpps) = NumOpps
  /\ Fresh

\* Python's seq[:n]: the first n elements, and for a negative n all but the
\* last -n
slice_to(seq, n) ==
  IF n >= 0 THEN SubSeq(seq, 1, Min(n, Len(seq)))
  ELSE SubSeq(seq, 1, Max(Len(seq) + n, 0))

\* _select_opportunities returns: the list is cut to max_opps, logged, counted
SelectOpportunities ==
  /\ mainPc = "select"
  /\ LET cut == Len(sfOpps) > cfg.max_opps
         opps == IF cut THEN slice_to(sfOpps, cfg.max_opps) ELSE sfOpps
     IN  /\ selected' = opps
         /\ queue' = opps
         /\ events' = events
              (+) (IF cut THEN LogEntry("opportunity_truncated", 0, << >>) ELSE EmptyBag)
              (+) (IF cfg.dry_run THEN EmptyBag
                   ELSE SetToBag({ [ run |-> runNo, what |-> "opportunity_selected",
                                     opp |-> opps[n], item |-> << >> ] :
                                       n \in 1..Len(opps) }))
         /\ stats' = [ stats EXCEPT !.opps_selected = Len(opps) ]
  /\ mainPc' = "dispatch"
  /\ queryCalls' = queryCalls + 1
  /\ UNCHANGED << cfg, sfOpps, runNo, clock, runStatus, raised, cand, thr, ledger,
                  connOpen, external, createCalls, errors, tlsClients,
                  faults, ledgerAtStart, plans, cleanup, ledgerOps, built,
                  statusWrites >>

\* a variant of SelectRaises that finalizes the run as completed before it
\* re-raises
SelectRaisesCompleted ==
  /\ mainPc = "select"
  /\ errors' = errors (+) LogEntry("pipeline", 0, << >>)
  /\ stats' = [ stats EXCEPT !.failures = @ + 1 ]
  /\ runStatus' = "completed"
  /\ raised' = TRUE
  /\ connOpen' = FALSE
  /\ mainPc' = "done"
  /\ queryCalls' = queryCalls + 1
  /\ statusWrites' = statusWrites + 1
  /\ UNCHANGED << cfg, sfOpps, runNo, clock, selected, queue, cand, thr, ledger,
                  external, createCalls, events, tlsClients, faults,
                  ledgerAtStart, plans, cleanup, ledgerOps, built >>

\* query_opportunities raises (not in a dry run, where it returns the mock
\* list): run()'s outer handler logs, finalizes as failed, re-raises; the
\* finally clause closes the ledger
SelectRaises ==
  /\ mainPc = "select"
  /\ ~cfg.dry_run
  /\ errors' = errors (+) LogEntry("pipeline", 0, << >>)
  /\ stats' = [ stats EXCEPT !.failures = @ + 1 ]
  /\ runStatus' = "failed"
  /\ raised' = TRUE
  /\ connOpen' = FALSE
  /\ mainPc' = "done"
  /\ queryCalls' = queryCalls + 1
  /\ statusWrites' = statusWrites + 1
  /\ UNCHANGED << cfg, sfOpps, runNo, clock, selected, queue, cand, thr, ledger,
                  external, createCalls, events, tlsClients, faults,
                  ledgerAtStart, plans, cleanup, ledgerOps, built >>

\* a variant of WorkerFree: a thread is handed a call while it runs another
WorkerAlwaysFree(t) == TRUE

\* a thread runs one call at a time: the for loop calls _process_opportunity
\* and waits for it, a pool thread takes the next submitted call when the one
\* it runs has returned
WorkerFree(t) == thr[t].pc = "idle"

\* the for loop of run() (thread 0) or a pool thread starts _process_opportunity
TakeNext(t) ==
  /\ mainPc = "dispatch"
  /\ queue # << >>
  /\ WorkerFree(t)
  /\ t \in (IF Pooled THEN { u \in Workers : u <= cfg.concurrency } ELSE { 0 })
  /\ \A u \in Workers : u < t => thr[u].pc # "idle"
  /\ thr' = [ thr EXCEPT ![t] =
                [ Idle EXCEPT !.opp = Head(queue),
                              !.pc = IF HasStore THEN "has_opportunity" ELSE "create_plan" ] ]
  /\ queue' = Tail(queue)
  /\ cand' = [ cand EXCEPT ![Head(queue)] = "Processing" ]
  /\ UNCHANGED << cfg, sfOpps, runNo, clock, mainPc, runStatus, raised, selected,
                  ledger, connOpen, external, createCalls, stats, errors, events,
                  tlsClients, faults, ledgerAtStart, plans, cleanup, ledgerOps,
                  built, queryCalls, statusWrites >>

\* a ledger call raises: ProgrammingError (wrong thread, closed connection) or
\* an I/O error of SQLite; none is inside a per-item try block
LedgerRaises(t) ==
  /\ thr[t].pc \in LedgerPcs
  /\ \/ ~LedgerUsable(t) /\ UNCHANGED faults
     \/ /\ LedgerUsable(t)
        /\ Cardinality(faults) < MaxFaults
        /\ faults' = faults \cup { Fault(thr[t], thr[t].pc) }
  /\ thr' = [ thr EXCEPT ![t] = [ Idle EXCEPT !.opp = thr[t].opp, !.pc = "except" ] ]
  /\ UNCHANGED << cfg, sfOpps, runNo, clock, mainPc, runStatus, raised, selected,
                  queue, cand, ledger, connOpen, external, createCalls, stats,
                  errors, events, tlsClients, ledgerAtStart, plans, cleanup, ledgerOps,
                  built, queryCalls, statusWrites >>

\* _process_opportunity: the has_opportunity check
HasOpportunity(t) ==
  LET w == thr[t] IN
  /\ w.pc = "has_opportunity"
  /\ LedgerUsable(t)
  /\ IF has_opportunity(ledger, RunId, w.opp)
       THEN /\ events' = events (+) LogEntry("opportunity_skipped", w.opp, << >>)
            /\ thr' = [ thr EXCEPT ![t] = Idle ]
            /\ cand' = [ cand EXCEPT ![w.opp] = "Skipped" ]
       ELSE /\ thr' = [ thr EXCEPT ![t].pc = "create_plan" ]
            /\ UNCHANGED << events, cand >>
  /\ UNCHANGED << cfg, sfOpps, runNo, clock, mainPc, runStatus, raised, selected,
                  queue, ledger, connOpen, external, createCalls, stats, errors,
                  tlsClients, faults, ledgerAtStart, plans, cleanup, ledgerOps,
                  built, queryCalls, statusWrites >>

\* _create_activities: the plan is made, the first item is next
CreatePlan(t) ==
  /\ thr[t].pc = "create_plan"
  /\ thr' = [ thr EXCEPT ![t] = MeetingsFrom(thr[t], 1) ]
  /\ UNCHANGED << cfg, sfOpps, runNo, clock, mainPc, runStatus, raised, selected,
                  queue, cand, ledger, connOpen, external, createCalls, stats,
                  errors, events, tlsClients, faults,
                  ledgerAtStart, plans, cleanup, ledgerOps,
                  built, queryCalls, statusWrites >>

\* _create_meeting / _create_email: the has_activity check
HasActivity(t) ==
  LET w == thr[t]
      item == Items(w.opp, w.kind)[w.i]
  IN
  /\ w.pc = "has_activity"
  /\ LedgerUsable(t)
  /\ IF has_activity(ledger, RunId, w.opp, w.kind, Timestamp(item, w.kind), item.subject)
       THEN /\ events' = events (+) LogEntry(w.kind \o "_skipped", w.opp, << w.kind, w.i >>)
            /\ thr' = [ thr EXCEPT ![t] = AfterActivity(w) ]
       ELSE /\ thr' = [ thr EXCEPT ![t].pc = "create_activity" ]
            /\ UNCHANGED events
  /\ UNCHANGED << cfg, sfOpps, runNo, clock, mainPc, runStatus, raised, selected,
                  queue, cand, ledger, connOpen, external, createCalls, stats,
                  errors, tlsClients, faults, ledgerAtStart, plans, cleanup, ledgerOps,
                  built, queryCalls, statusWrites >>

\* a variant of RunTag that never tags
NoRunTag == "none"

\* run_id and tag_field as passed to create_event / create_task: the record
\* gets the tag field only in tag mode
RunTag == IF cfg.tag_mode THEN RunId ELSE "none"

\* self.sf_client, the client DemoGenRunner.__init__ constructs
SharedClient == << "shared", 0, 0 >>

\* a variant of CachedClient that never finds the client the thread stored
NoCachedClient(tls, t) == FALSE

\* _get_sf_client's lookup in the thread's threading.local: a client is there
CachedClient(tls, t) == t \in tls

\* the call on a dry-run client raises: create_event does, because its
\* function-level `from datetime import datetime, timedelta` makes datetime a
\* local that the dry-run return reads unbound; create_task returns a mock id
MockRaises(kind) == cfg.dry_run /\ kind = "meeting"

\* _create_meeting / _create_email: _get_sf_client, then create_event /
\* create_task returns an id (logged, the counter read) or raises (logged by
\* log_error, the failure counter read); a dry-run client makes no call to
\* Salesforce
CreateActivity(t) ==
  LET w == thr[t]
      item == Items(w.opp, w.kind)[w.i]
  IN
  /\ w.pc = "create_activity"
  /\ tlsClients' = IF cfg.concurrency <= 1 THEN tlsClients ELSE tlsClients \cup { t }
  /\ built' = IF cfg.concurrency <= 1 \/ CachedClient(tlsClients, t)
                THEN built ELSE [ built EXCEPT ![t] = @ + 1 ]
  /\ createCalls' = createCalls + 1
  /\ \/ /\ ~MockRaises(w.kind)
        /\ external' = IF cfg.dry_run THEN external ELSE external \cup
              { [ id |-> NewId(w), object |-> ObjectOf(w.kind), what_id |-> w.opp,
                  subject |-> item.subject, at |-> Timestamp(item, w.kind),
                  tag |-> RunTag,
                  thread |-> t,
                  client |-> IF cfg.concurrency <= 1 THEN SharedClient
                             ELSE << "local", t, built'[t] >> ] }
        /\ events' = events (+) LogEntry(w.kind \o "_created", w.opp, << w.kind, w.i >>)
        /\ IncrementStat(t, w, StatOf(w.kind), "after_create")
        /\ UNCHANGED << errors, faults >>
     \/ /\ \/ /\ ~cfg.dry_run
              /\ Cardinality(faults) < MaxFaults
              /\ faults' = faults \cup { Fault(w, "create") }
           \/ /\ MockRaises(w.kind)
              /\ UNCHANGED faults
        /\ errors' = errors (+) LogEntry(StageOf(w.kind), w.opp, << w.kind, w.i >>)
        /\ IncrementStat(t, w, "failures", "after_error")
        /\ UNCHANGED << external, events >>
  /\ UNCHANGED << cfg, sfOpps, runNo, clock, mainPc, runStatus, raised, selected,
                  queue, cand, ledger, connOpen, ledgerAtStart, plans, cleanup,
                  ledgerOps, queryCalls, statusWrites >>

\* the write half of stats[name] += 1 (increment_stat, log_error)
IncWrite(t) ==
  LET w == thr[t] IN
  /\ w.pc = "inc_write"
  /\ stats' = [ stats EXCEPT ![w.stat] = w.tmp + 1 ]
  /\ thr' = [ thr EXCEPT ![t] = Continue(w) ]
  /\ UNCHANGED << cfg, sfOpps, runNo, clock, mainPc, runStatus, raised, selected,
                  queue, cand, ledger, connOpen, external, createCalls, errors,
                  events, tlsClients, faults, ledgerAtStart, plans, cleanup, ledgerOps,
                  built, queryCalls, statusWrites >>

\* _create_meeting / _create_email: record_activity
RecordActivity(t) ==
  LET w == thr[t]
      item == Items(w.opp, w.kind)[w.i]
  IN
  /\ w.pc = "record_activity"
  /\ LedgerUsable(t)
  /\ ledger' = record_activity(ledger, RunId, w.opp, w.kind, Timestamp(item, w.kind),
                               item.subject, NewId(w), clock)
  /\ thr' = [ thr EXCEPT ![t] = AfterActivity(w) ]
  /\ UNCHANGED << cfg, sfOpps, runNo, clock, mainPc, runStatus, raised, selected,
                  queue, cand, connOpen, external, createCalls, stats, errors,
                  events, tlsClients, faults, ledgerAtStart, plans, cleanup, ledgerOps,
                  built, queryCalls, statusWrites >>


\* _create_scorecards: the has_scorecard check of template i
HasScorecard(t) ==
  LET w == thr[t] IN
  /\ w.pc = "has_scorecard"
  /\ LedgerUsable(t)
  /\ IF has_scorecard(ledger, RunId, w.opp, Templates[w.i])
       THEN /\ events' = events (+) LogEntry("scorecard_skipped", w.opp, << w.kind, w.i >>)
            /\ thr' = [ thr EXCEPT ![t] = ScorecardsFrom(w, w.i + 1) ]
       ELSE /\ thr' = [ thr EXCEPT ![t].pc = "upsert_scorecard" ]
            /\ UNCHANGED events
  /\ UNCHANGED << cfg, sfOpps, runNo, clock, mainPc, runStatus, raised, selected,
                  queue, cand, ledger, connOpen, external, createCalls, stats,
                  errors, tlsClients, faults, ledgerAtStart, plans, cleanup, ledgerOps,
                  built, queryCalls, statusWrites >>

\* _create_scorecards: upsert_scorecard returns (logged, the counter read), or
\* populate_scorecard raises ValueError for a template that is not registered
\* (logged by log_error, the failure counter read)
UpsertScorecard(t) ==
  LET w == thr[t] IN
  /\ w.pc = "upsert_scorecard"
  /\ IF Registered(Templates[w.i])
       THEN /\ events' = events
                 (+) LogEntry("scorecard_upserted", w.opp, << w.kind, w.i >>)
            /\ IncrementStat(t, w, "scorecards_created", "after_upsert")
            /\ UNCHANGED errors
       ELSE /\ errors' = errors
                 (+) LogEntry("scorecard_generation", w.opp, << w.kind, w.i >>)
            /\ IncrementStat(t, w, "failures", "after_scorecard")
            /\ UNCHANGED events
  /\ UNCHANGED << cfg, sfOpps, runNo, clock, mainPc, runStatus, raised, selected,
                  queue, cand, ledger, connOpen, external, createCalls,
                  tlsClients, faults, ledgerAtStart, plans, cleanup, ledgerOps,
                  built, queryCalls, statusWrites >>

\* _create_scorecards: record_scorecard
RecordScorecard(t) ==
  LET w == thr[t]
      sc == Scorecard(w.opp, w.i)
  IN
  /\ w.pc = "record_scorecard"
  /\ LedgerUsable(t)
  /\ ledger' = record_scorecard(ledger, RunId, w.opp, sc.scorecard_id, sc.template, clock)
  /\ thr' = [ thr EXCEPT ![t] = AnswersFrom(w, 1) ]
  /\ UNCHANGED << cfg, sfOpps, runNo, clock, mainPc, runStatus, raised, selected,
                  queue, cand, connOpen, external, createCalls, stats, errors,
                  events, tlsClients, faults, ledgerAtStart, plans, cleanup, ledgerOps,
                  built, queryCalls, statusWrites >>

\* _create_scorecards: answer a is logged, the answer counter read
WriteAnswer(t) ==
  LET w == thr[t] IN
  /\ w.pc = "write_answer"
  /\ events' = events (+) LogEntry("scorecard_answer_written", w.opp, << w.kind, w.i, w.a >>)
  /\ IncrementStat(t, w, "scorecard_answers_written", "after_answer")
  /\ UNCHANGED << cfg, sfOpps, runNo, clock, mainPc, runStatus, raised, selected,
                  queue, cand, ledger, connOpen, external, createCalls,
                  errors, tlsClients, faults, ledgerAtStart, plans, cleanup, ledgerOps,
                  built, queryCalls, statusWrites >>

\* _create_scorecards: record_scorecard_answer
RecordAnswer(t) ==
  LET w == thr[t]
      sc == Scorecard(w.opp, w.i)
      answer == sc.answers[w.a]
  IN
  /\ w.pc = "record_answer"
  /\ LedgerUsable(t)
  /\ ledger' = record_scorecard_answer(ledger, RunId, sc.scorecard_id,
                                       answer.question_id, answer.confidence, clock)
  /\ thr' = [ thr EXCEPT ![t] = AnswersFrom(w, w.a + 1) ]
  /\ UNCHANGED << cfg, sfOpps, runNo, clock, mainPc, runStatus, raised, selected,
                  queue, cand, connOpen, external, createCalls, stats, errors,
                  events, tlsClients, faults, ledgerAtStart, plans, cleanup, ledgerOps,
                  built, queryCalls, statusWrites >>

\* _create_scorecards: current_coverage = get_stats().get("coverage", 0.0)
CoverageRead(t) ==
  LET w == thr[t] IN
  /\ w.pc = "coverage_read"
  /\ thr' = [ thr EXCEPT ![t] = [ w EXCEPT !.pc = "coverage_write", !.tmp = stats.coverage ] ]
  /\ UNCHANGED << cfg, sfOpps, runNo, clock, mainPc, runStatus, raised, selected,
                  queue, cand, ledger, connOpen, external, createCalls, stats,
                  errors, events, tlsClients, faults,
                  ledgerAtStart, plans, cleanup, ledgerOps,
                  built, queryCalls, statusWrites >>

\* the coverage the run keeps, given the one it read and a scorecard's
NewCoverage(current_coverage, coverage) == Max(current_coverage, coverage)

\* _create_scorecards: set_stat("coverage", max(current_coverage, coverage));
\* without a ledger the opportunity is done after its last template
CoverageWrite(t) ==
  LET w == thr[t]
      next == ScorecardsFrom(w, w.i + 1)
  IN
  /\ w.pc = "coverage_write"
  /\ stats' = [ stats EXCEPT !.coverage = NewCoverage(w.tmp, Scorecard(w.opp, w.i).coverage) ]
  /\ thr' = [ thr EXCEPT ![t] = next ]
  /\ cand' = IF next.pc = "idle" THEN [ cand EXCEPT ![w.opp] = "Applied" ] ELSE cand
  /\ UNCHANGED << cfg, sfOpps, runNo, clock, mainPc, runStatus, raised, selected,
                  queue, ledger, connOpen, external, createCalls, errors, events,
                  tlsClients, faults, ledgerAtStart, plans, cleanup, ledgerOps,
                  built, queryCalls, statusWrites >>

\* _process_opportunity: record_opportunity, the end of the try block
RecordOpportunity(t) ==
  LET w == thr[t] IN
  /\ w.pc = "record_opportunity"
  /\ LedgerUsable(t)
  /\ ledger' = record_opportunity(ledger, RunId, w.opp, clock)
  /\ thr' = [ thr EXCEPT ![t] = Idle ]
  /\ cand' = [ cand EXCEPT ![w.opp] = "Recorded" ]
  /\ UNCHANGED << cfg, sfOpps, runNo, clock, mainPc, runStatus, raised, selected,
                  queue, connOpen, external, createCalls, stats, errors, events,
                  tlsClients, faults, ledgerAtStart, plans, cleanup, ledgerOps,
                  built, queryCalls, statusWrites >>

\* a variant of Abandon that puts the opportunity back among the pending ones
AbandonToPending(c, opp) == [ c EXCEPT ![opp] = "Pending" ]

\* what the except clause of _process_opportunity does with the opportunity
Abandon(c, opp) == [ c EXCEPT ![opp] = "Failed" ]

\* _process_opportunity: the except clause logs the error with the
\* opportunity's id (the failure counter is read) and returns
HandleException(t) ==
  LET w == thr[t] IN
  /\ w.pc = "except"
  /\ errors' = errors (+) LogEntry("opportunity_processing", w.opp, << >>)
  /\ IncrementStat(t, w, "failures", "failed")
  /\ cand' = Abandon(cand, w.opp)
  /\ UNCHANGED << cfg, sfOpps, runNo, clock, mainPc, runStatus, raised, selected,
                  queue, ledger, connOpen, external, createCalls, events,
                  tlsClients, faults, ledgerAtStart, plans, cleanup, ledgerOps,
                  built, queryCalls, statusWrites >>

\* a variant of AllReturned that does not wait
NotAwaited == TRUE

\* a variant of AllReturned: every submitted call was taken by a thread, which
\* may still be running it
AllTaken == queue = << >>

\* the for loop over the opportunities has ended, or the with block of the
\* ThreadPoolExecutor has: every submitted call has returned
AllReturned == queue = << >> /\ \A t \in Threads : thr[t].pc = "idle"

\* a variant of FinalStatus: a run in which something failed is finalized as
\* failed
FinalStatusByFailures == IF stats.failures > 0 THEN "failed" ELSE "completed"

\* run(): the status of finalize(status="completed"), whatever the counters are
FinalStatus == "completed"

\* run(): every opportunity was processed (the for loop ended, or the pool
\* shut down); finalize("completed"), then the finally clause closes the ledger.
\* The DryRunLogger inherits finalize but has no run_file: finalize raises
\* AttributeError, run()'s handler counts a failure, calls finalize("failed"),
\* which raises again, and the exception leaves run()
Finalize ==
  /\ mainPc = "dispatch"
  /\ AllReturned
  /\ IF cfg.dry_run
       THEN /\ stats' = [ stats EXCEPT !.failures = @ + 1 ]
            /\ raised' = TRUE
            /\ UNCHANGED << runStatus, statusWrites >>
       ELSE /\ runStatus' = FinalStatus
            /\ statusWrites' = statusWrites + 1
            /\ UNCHANGED << stats, raised >>
  /\ connOpen' = FALSE
  /\ mainPc' = "done"
  /\ UNCHANGED << cfg, sfOpps, runNo, clock, selected, queue, cand, thr,
                  ledger, external, createCalls, errors, events, tlsClients,
                  faults, ledgerAtStart, plans, cleanup, ledgerOps,
                  built, queryCalls >>

\* a new DemoGenRunner is built on the same ResolvedConfig (same run id, same
\* run directory, same seed) some time later: a new logger and a new
\* connection to the state.sqlite that is there, the logs appended to
NewRun ==
  /\ mainPc = "done"
  /\ runNo < NumRuns
  /\ runNo' = runNo + 1
  /\ clock' \in { clock + 1, clock + MinutesPerDay }
  /\ mainPc' = "select"
  /\ runStatus' = "running"
  /\ raised' = FALSE
  /\ selected' = << >>
  /\ queue' = << >>
  /\ cand' = [ o \in Opps |-> "Pending" ]
  /\ connOpen' = HasStore
  /\ createCalls' = 0
  /\ stats' = NewStats
  /\ tlsClients' = {}
  /\ ledgerAtStart' = ledger
  /\ built' = [ t \in Threads |-> 0 ]
  /\ queryCalls' = 0
  /\ statusWrites' = IF cfg.dry_run THEN 0 ELSE 1
  /\ UNCHANGED << cfg, sfOpps, thr, ledger, external, errors, events, faults,
                  plans, cleanup, ledgerOps >>

Step(t) ==
  \/ TakeNext(t)
  \/ LedgerRaises(t)
  \/ HasOpportunity(t)
  \/ CreatePlan(t)
  \/ HasActivity(t)
  \/ CreateActivity(t)
  \/ IncWrite(t)
  \/ RecordActivity(t)
  \/ HasScorecard(t)
  \/ UpsertScorecard(t)
  \/ RecordScorecard(t)
  \/ WriteAnswer(t)
  \/ RecordAnswer(t)
  \/ CoverageRead(t)
  \/ CoverageWrite(t)
  \/ RecordOpportunity(t)
  \/ HandleException(t)

Next ==
  \/ SelectOpportunities
  \/ SelectRaises
  \/ \E t \in Threads : Step(t)
  \/ Finalize
  \/ NewRun

Spec == Init /\ [][Next]_vars

\* one run() of a runner built in an empty run directory
NextRun ==
  \/ SelectOpportunities
  \/ SelectRaises
  \/ \E t \in Threads : Step(t)
  \/ Finalize

SpecRun == Init /\ [][NextRun]_vars

\* one run() of a runner built with any --max-opps the command line takes
\* (click's type=int): -1, 0, or up to what the query returns
InitSelect ==
  /\ sfOpps \in { [ i \in 1..n |-> i ] : n \in 0..NumOpps }
  /\ cfg \in [ concurrency : { 1, 2 }, max_opps : (-1)..NumOpps,
               tag_mode : BOOLEAN, seed : { RunSeed },
               templates : { RunScorecardsConfig.templates }, dry_run : { FALSE } ]
  /\ Fresh

SpecSelect == InitSelect /\ [][NextRun]_vars

\* one run() in which the calling thread and every pool thread that can take
\* a step is scheduled, and every call made to the outside returns
SpecRunFair ==
  /\ Init
  /\ [][NextRun]_vars
  /\ WF_vars(SelectOpportunities \/ SelectRaises)
  /\ \A t \in Threads : WF_vars(Step(t))
  /\ WF_vars(Finalize)

\* external_state mode: runs one after the other on the same state.sqlite
InitRerun == Init /\ ~cfg.tag_mode

\* runs whose scorecards section may name a template that is not registered
\* (validate_templates only asks for a list that is not empty)
InitTemplates ==
  /\ sfOpps \in { [ i \in 1..n |-> i ] : n \in 0..NumOpps }
  /\ cfg \in [ concurrency : { 1, 2 }, max_opps : { NumOpps },
               tag_mode : BOOLEAN, seed : { RunSeed },
               templates : { << "MEDDICC" >>, << "BANT", "MEDDICC" >> },
               dry_run : { FALSE } ]
  /\ Fresh

SpecTemplates == InitTemplates /\ [][NextRun]_vars

\* runs with run.dry_run set or not; the dry-run client's query returns its
\* mock list
InitDryRun ==
  /\ sfOpps \in { [ i \in 1..n |-> i ] : n \in 0..NumOpps }
  /\ cfg \in [ concurrency : { 1, 2 }, max_opps : { NumOpps },
               tag_mode : BOOLEAN, seed : { RunSeed },
               templates : { RunScorecardsConfig.templates }, dry_run : BOOLEAN ]
  /\ cfg.dry_run => Len(sfOpps) = NumOpps
  /\ Fresh

SpecDryRun == InitDryRun /\ [][NextRun]_vars

SpecRerun == InitRerun /\ [][Next]_vars

\* ------------------------------------------------------------ cleanup_run
\* the ids query_all returns for an object: the records tagged with the run id
TaggedIds(object) == { r.id : r \in { x \in external : x.object = object /\ x.tag = RunId } }

\* get_run_activities: (activity_id, activity_type) of the run's ledger rows
get_run_activities(l, run_id) ==
  { << r.activity_id, r.activity_type >> : r \in { x \in l.activities : x.run_id = run_id } }

\* the order the rows are looped over
NextOf(S) == CHOOSE x \in S : TRUE

DeleteFault(id) == [ run |-> runNo, opp |-> 0, what |-> "delete", item |-> id ]

\* obj.delete(id) on Salesforce
delete_record(ext, id) == { r \in ext : r.id # id }

\* a variant of AfterDeleteError that lets the exception leave cleanup_run
RaiseAfterDeleteError(c, row) == [ c EXCEPT !.pc = "raised" ]

\* cleanup_run, external_state mode: except Exception: continue
AfterDeleteError(c, row) == [ c EXCEPT !.todo = @ \ { row } ]

\* the reset command after a run: cleanup_run reads run.json and the resolved
\* config, builds a client; tag mode queries the tagged Events, external_state
\* mode opens state.sqlite and reads the run's activities
StartCleanup ==
  /\ mainPc = "done"
  /\ cleanup.pc = "none"
  /\ cleanup' =
       IF cfg.tag_mode
         THEN [ cleanup EXCEPT !.pc = "delete_events", !.todo = TaggedIds("Event"),
                               !.targets = TaggedIds("Event") \cup TaggedIds("Task") ]
         ELSE [ cleanup EXCEPT !.pc = "delete_activities",
                               !.todo = get_run_activities(ledger, RunId),
                               !.targets = { row[1] : row \in get_run_activities(ledger, RunId) } ]
  /\ UNCHANGED << cfg, sfOpps, runNo, clock, mainPc, runStatus, raised, selected,
                  queue, cand, thr, ledger, connOpen, external, createCalls, stats,
                  errors, events, tlsClients, faults, ledgerAtStart, plans,
                  ledgerOps, built, queryCalls, statusWrites >>

\* delete_records_by_run_id's loop: obj.delete(record["Id"]); deleted += 1, with
\* no try block around it or around the two calls in cleanup_run
DeleteTagged ==
  /\ cleanup.pc \in { "delete_events", "delete_tasks" }
  /\ cleanup.todo # {}
  /\ LET id == NextOf(cleanup.todo)
         object == IF cleanup.pc = "delete_events" THEN "Event" ELSE "Task"
         tried == [ cleanup EXCEPT !.attempts = @ (+) SetToBag({ id }) ]
     IN  \/ /\ external' = delete_record(external, id)
            /\ cleanup' = [ tried EXCEPT !.todo = @ \ { id }, !.deleted[object] = @ + 1 ]
            /\ UNCHANGED faults
         \/ /\ Cardinality(faults) < MaxFaults
            /\ faults' = faults \cup { DeleteFault(id) }
            /\ cleanup' = [ tried EXCEPT !.pc = "raised" ]
            /\ UNCHANGED external
  /\ UNCHANGED << cfg, sfOpps, runNo, clock, mainPc, runStatus, raised, selected,
                  queue, cand, thr, ledger, connOpen, createCalls, stats, errors,
                  events, tlsClients, ledgerAtStart, plans, ledgerOps, built,
                  queryCalls, statusWrites >>

\* delete_records_by_run_id returns its count: the Tasks are queried next, or
\* cleanup_run returns the two counts
TaggedDone ==
  /\ cleanup.pc \in { "delete_events", "delete_tasks" }
  /\ cleanup.todo = {}
  /\ cleanup' =
       IF cleanup.pc = "delete_events"
         THEN [ cleanup EXCEPT !.pc = "delete_tasks", !.todo = TaggedIds("Task") ]
         ELSE [ cleanup EXCEPT !.pc = "returned" ]
  /\ UNCHANGED << cfg, sfOpps, runNo, clock, mainPc, runStatus, raised, selected,
                  queue, cand, thr, ledger, connOpen, external, createCalls, stats,
                  errors, events, tlsClients, faults, ledgerAtStart, plans,
                  ledgerOps, built, queryCalls, statusWrites >>

\* cleanup_run's loop over the ledger's activities: delete_record in a try
\* block, the count of its object incremented after the delete returns
DeleteRecorded ==
  /\ cleanup.pc = "delete_activities"
  /\ cleanup.todo # {}
  /\ LET row == NextOf(cleanup.todo)
         object == ObjectOf(row[2])
         tried == [ cleanup EXCEPT !.attempts = @ (+) SetToBag({ row[1] }) ]
     IN  \/ /\ external' = delete_record(external, row[1])
            /\ cleanup' = [ tried EXCEPT !.todo = @ \ { row }, !.deleted[object] = @ + 1 ]
            /\ UNCHANGED faults
         \/ /\ Cardinality(faults) < MaxFaults
            /\ faults' = faults \cup { DeleteFault(row[1]) }
            /\ cleanup' = AfterDeleteError(tried, row)
            /\ UNCHANGED external
  /\ UNCHANGED << cfg, sfOpps, runNo, clock, mainPc, runStatus, raised, selected,
                  queue, cand, thr, ledger, connOpen, createCalls, stats, errors,
                  events, tlsClients, ledgerAtStart, plans, ledgerOps, built,
                  queryCalls, statusWrites >>

\* the loop is over: state_store.close(), the two counts returned
RecordedDone ==
  /\ cleanup.pc = "delete_activities"
  /\ cleanup.todo = {}
  /\ cleanup' = [ cleanup EXCEPT !.pc = "returned" ]
  /\ UNCHANGED << cfg, sfOpps, runNo, clock, mainPc, runStatus, raised, selected,
                  queue, cand, thr, ledger, connOpen, external, createCalls, stats,
                  errors, events, tlsClients, faults, ledgerAtStart, plans,
                  ledgerOps, built, queryCalls, statusWrites >>

\* one run(), then the reset command on its run directory
NextCleanup ==
  \/ SelectOpportunities
  \/ SelectRaises
  \/ \E t \in Threads : Step(t)
  \/ Finalize
  \/ StartCleanup
  \/ DeleteTagged
  \/ TaggedDone
  \/ DeleteRecorded
  \/ RecordedDone

SpecCleanup == Init /\ [][NextCleanup]_vars

\* -------------------------------------------------- the ledger on its own
\* a StateStore on an empty state.sqlite, before its first call
InitLedger ==
  /\ sfOpps = [ i \in 1..NumOpps |-> i ]
  /\ cfg \in [ concurrency : { 1 }, max_opps : { NumOpps }, tag_mode : { FALSE },
               seed : { RunSeed },
               templates : { RunScorecardsConfig.templates }, dry_run : { FALSE } ]
  /\ Fresh

\* the arguments the calls are made with: two run ids, two opportunities, the
\* two activity types, and two different external ids and timestamps
RunIds == { RunId, "run-2" }

OppIds == { 1, 2 }

Stamps == { 0, 1 }

ActivityTypes == { "meeting", "email" }

LedgerRows(l) ==
  Cardinality(l.opportunities) + Cardinality(l.activities)
    + Cardinality(l.scorecards) + Cardinality(l.scorecard_answers)

\* the calls made so far on a table: each key with the values of its first
\* call, and whether a later call gave it other values
Performed(ops, key, values) ==
  IF \E op \in ops : op.key = key
    THEN { IF op.key = key /\ op.values # values THEN [ op EXCEPT !.again = TRUE ] ELSE op :
             op \in ops }
    ELSE ops \cup { [ key |-> key, values |-> values, again |-> FALSE ] }

\* the call is one more on a key recorded before, or there is room for a row
Room(ops, key) ==
  \/ \E op \in ops : op.key = key
  \/ LedgerRows(ledgerOps) < MaxLedgerRows

CallRecordOpportunity ==
  /\ \E run_id \in RunIds, opp_id \in OppIds, v \in Stamps :
       /\ Room(ledgerOps.opportunities, << run_id, opp_id >>)
       /\ ledger' = record_opportunity(ledger, run_id, opp_id, v)
       /\ ledgerOps' = [ ledgerOps EXCEPT !.opportunities =
                           Performed(@, << run_id, opp_id >>, << v >>) ]
  /\ UNCHANGED << cfg, sfOpps, runNo, clock, mainPc, runStatus, raised, selected,
                  queue, cand, thr, connOpen, external, createCalls, stats, errors,
                  events, tlsClients, faults, ledgerAtStart, plans, cleanup, built,
                  queryCalls, statusWrites >>

CallRecordActivity ==
  /\ \E run_id \in RunIds, opp_id \in OppIds, type \in ActivityTypes, v \in Stamps :
       LET subject == meeting_subjects[1]
           signature == generate_activity_signature(type, 0, subject)
           activity_id == << v + 1, opp_id, type, 1 >>
       IN  /\ Room(ledgerOps.activities, << run_id, opp_id, signature >>)
           /\ ledger' = record_activity(ledger, run_id, opp_id, type, 0, subject,
                                        activity_id, v)
           /\ ledgerOps' = [ ledgerOps EXCEPT !.activities =
                               Performed(@, << run_id, opp_id, signature >>,
                                         << activity_id, v >>) ]
  /\ UNCHANGED << cfg, sfOpps, runNo, clock, mainPc, runStatus, raised, selected,
                  queue, cand, thr, connOpen, external, createCalls, stats, errors,
                  events, tlsClients, faults, ledgerAtStart, plans, cleanup, built,
                  queryCalls, statusWrites >>

CallRecordScorecard ==
  /\ \E run_id \in RunIds, opp_id \in OppIds, v \in Stamps :
       LET template == RunScorecardsConfig.templates[1]
           scorecard_id == << v, opp_id >>
       IN  /\ Room(ledgerOps.scorecards, << run_id, opp_id, template >>)
           /\ ledger' = record_scorecard(ledger, run_id, opp_id, scorecard_id,
                                         template, v)
           /\ ledgerOps' = [ ledgerOps EXCEPT !.scorecards =
                               Performed(@, << run_id, opp_id, template >>,
                                         << scorecard_id, v >>) ]
  /\ UNCHANGED << cfg, sfOpps, runNo, clock, mainPc, runStatus, raised, selected,
                  queue, cand, thr, connOpen, external, createCalls, stats, errors,
                  events, tlsClients, faults, ledgerAtStart, plans, cleanup, built,
                  queryCalls, statusWrites >>

CallRecordScorecardAnswer ==
  /\ \E run_id \in RunIds, opp_id \in OppIds, v \in Stamps :
       LET scorecard_id == << 0, opp_id >>
           question_id == meddicc_questions[1]
       IN  /\ Room(ledgerOps.scorecard_answers, << run_id, scorecard_id, question_id >>)
           /\ ledger' = record_scorecard_answer(ledger, run_id, scorecard_id,
                                                question_id, v + 1, v)
           /\ ledgerOps' = [ ledgerOps EXCEPT !.scorecard_answers =
                               Performed(@, << run_id, scorecard_id, question_id >>,
                                         << v + 1, v >>) ]
  /\ UNCHANGED << cfg, sfOpps, runNo, clock, mainPc, runStatus, raised, selected,
                  queue, cand, thr, connOpen, external, createCalls, stats, errors,
                  events, tlsClients, faults, ledgerAtStart, plans, cleanup, built,
                  queryCalls, statusWrites >>

NextLedger ==
  \/ CallRecordOpportunity
  \/ CallRecordActivity
  \/ CallRecordScorecard
  \/ CallRecordScorecardAnswer

SpecLedger == InitLedger /\ [][NextLedger]_vars

\* ------------------------------------------------- the planner on its own
Seeds == 0..MaxSeed

\* a planner built with any seed, before its first create_plan
InitPlan ==
  /\ sfOpps = [ i \in 1..NumOpps |-> i ]
  /\ cfg \in [ concurrency : { 1 }, max_opps : { NumOpps }, tag_mode : { FALSE },
               seed : Seeds,
               templates : { RunScorecardsConfig.templates }, dry_run : { FALSE } ]
  /\ Fresh

\* create_plan(opportunity) is called on a planner built with the seed, for
\* the same opportunity every time; the plan is kept with the clock reading
CallCreatePlan ==
  /\ Len(plans) < NumRuns
  /\ \E o \in Opps :
       /\ \A n \in DOMAIN plans : plans[n].opp = o
       /\ plans' = Append(plans,
                     [ opp |-> o, now |-> clock,
                       plan |-> create_plan(RunActivityConfig, cfg.seed, o, clock) ])
  /\ UNCHANGED << cfg, sfOpps, runNo, clock, mainPc, runStatus, raised, selected,
                  queue, cand, thr, ledger, connOpen, external, createCalls, stats,
                  errors, events, tlsClients, faults, ledgerAtStart, cleanup,
                  ledgerOps, built, queryCalls, statusWrites >>

\* time passes between two calls: a moment, or a day
TimePasses ==
  /\ clock' \in { clock + 1, clock + MinutesPerDay } \cap ClockValues
  /\ UNCHANGED << cfg, sfOpps, runNo, mainPc, runStatus, raised, selected, queue,
                  cand, thr, ledger, connOpen, external, createCalls, stats,
                  errors, events, tlsClients, faults, ledgerAtStart, plans, cleanup, ledgerOps,
                  built, queryCalls, statusWrites >>

NextPlan == CallCreatePlan \/ TimePasses

SpecPlan == InitPlan /\ [][NextPlan]_vars

\* --------------------------------- generation for candidates in any order
\* _process_opportunity generates for one more candidate, whichever it is:
\* create_plan(opportunity), then upsert_scorecard for the template; what was
\* generated is kept with the clock reading
GenerateCandidate ==
  /\ Len(plans) < NumRuns
  /\ \E o \in Opps :
       plans' = Append(plans,
                  [ opp |-> o, now |-> clock,
                    plan |-> create_plan(RunActivityConfig, cfg.seed, o, clock),
                    scorecard |-> upsert_scorecard(RunScorecardsConfig, cfg.seed, o,
                                                   RunScorecardsConfig.templates[1]) ])
  /\ UNCHANGED << cfg, sfOpps, runNo, clock, mainPc, runStatus, raised, selected,
                  queue, cand, thr, ledger, connOpen, external, createCalls, stats,
                  errors, events, tlsClients, faults, ledgerAtStart, cleanup,
                  ledgerOps, built, queryCalls, statusWrites >>

NextOrder == GenerateCandidate \/ TimePasses

SpecOrder == InitPlan /\ [][NextOrder]_vars

\* ------------------------------------------- configuration, then planner
MaxCount == 1    \* largest day window and largest meeting count of a configuration
MaxEmails == 5   \* largest email count of a configuration

\* the activity sections a config file can hold: windows and counts from zero
\* up, a minimum at zero, at the maximum or above it, lists empty or not
EmailMaxima == { 0, 1, 2, 5, MaxEmails }

ActivityConfigs ==
  { c \in [ past_days : 0..MaxCount, future_days : 0..MaxCount,
            past_min : 0..MaxCount, past_max : 0..MaxCount,
            future_min : 0..MaxCount, future_max : 0..MaxCount,
            duration_minutes : { << >>, << 30, 60 >> },
            email_min : 0..(MaxEmails + 1), email_max : EmailMaxima,
            participant_roles : { << >>, << "Champion", "Economic Buyer" >> } ] :
      c.email_min \in { 0, c.email_max, c.email_max + 1 } }

\* the seeds the planner of a loaded configuration is built with
ConfigSeeds == { MaxSeed, RunSeed }

\* MeetingsConfig.validate_meeting_bounds
validate_meeting_bounds(c) ==
  /\ ~(c.past_min < 0 \/ c.past_max < 0 \/ c.future_min < 0 \/ c.future_max < 0)
  /\ ~(c.past_min > c.past_max)
  /\ ~(c.future_min > c.future_max)
  /\ ~(Len(c.duration_minutes) = 0
        \/ \E n \in 1..Len(c.duration_minutes) : c.duration_minutes[n] <= 0)

\* EmailsConfig.validate_email_bounds
validate_email_bounds(c) ==
  /\ ~(c.email_min < 0 \/ c.email_max < 0)
  /\ ~(c.email_min > c.email_max)

\* ActivityConfig.validate_activity_config
validate_activity_config(c) ==
  /\ ~(c.past_days < 0 \/ c.future_days < 0)
  /\ ~(Len(c.participant_roles) = 0)

\* DemoGenConfig(**config_data): the validators of the activity section
validate(c) ==
  validate_meeting_bounds(c) /\ validate_email_bounds(c) /\ validate_activity_config(c)

\* rng.randint(lo, hi) raises ValueError (empty range for randrange) iff hi < lo
randint_raises(lo, hi) == hi < lo

\* rng.choice(seq) raises IndexError iff seq is empty
choice_raises(seq) == Len(seq) = 0

\* _generate_meeting raises: choice of a duration, randint(1, min(3, len(roles)))
generate_meeting_raises(c) ==
  \/ choice_raises(c.duration_minutes)
  \/ randint_raises(1, Min(3, Len(c.participant_roles)))

\* _generate_email raises: randint(1, past_days | future_days),
\* randint(1, min(2, len(roles)))
generate_email_raises(c, when) ==
  \/ randint_raises(1, IF when = "past" THEN c.past_days ELSE c.future_days)
  \/ randint_raises(1, Min(2, Len(c.participant_roles)))

\* create_plan raises: one of its three randint calls does, or the first
\* meeting or the first past or future email it generates does
create_plan_raises(c, seed, opp_id) ==
  IF \/ randint_raises(c.past_min, c.past_max)
     \/ randint_raises(c.future_min, c.future_max)
     \/ randint_raises(c.email_min, c.email_max)
    THEN TRUE
    ELSE LET s == RngInit(seed, opp_id)
             num_past_meetings == randint(c.past_min, c.past_max, RngAt(s, 0))
             num_future_meetings == randint(c.future_min, c.future_max, RngAt(s, 1))
             num_emails == randint(c.email_min, c.email_max, RngAt(s, 2))
             num_past_emails == past_email_count(num_emails)
         IN  \/ num_past_meetings + num_future_meetings > 0 /\ generate_meeting_raises(c)
             \/ num_past_emails > 0 /\ generate_email_raises(c, "past")
             \/ num_emails - num_past_emails > 0 /\ generate_email_raises(c, "future")

\* no runner has been built: there is no run, no ledger, no log
NoRunner ==
  /\ sfOpps = << >>
  /\ runNo = 1
  /\ clock = 0
  /\ mainPc = "load"
  /\ runStatus = "running"
  /\ raised = FALSE
  /\ selected = << >>
  /\ queue = << >>
  /\ cand = [ o \in Opps |-> "Pending" ]
  /\ thr = [ t \in Threads |-> Idle ]
  /\ ledger = EmptyLedger
  /\ connOpen = FALSE
  /\ external = {}
  /\ createCalls = 0
  /\ stats = NewStats
  /\ errors = EmptyBag
  /\ events = EmptyBag
  /\ tlsClients = {}
  /\ faults = {}
  /\ ledgerAtStart = EmptyLedger
  /\ plans = << >>
  /\ cleanup = NoCleanup
  /\ ledgerOps = EmptyLedger
  /\ built = [ t \in Threads |-> 0 ]
  /\ queryCalls = 0
  /\ statusWrites = 0

\* a config file is about to be loaded; nothing else exists yet
InitConfig ==
  /\ cfg \in ActivityConfigs
  /\ NoRunner

\* load_config: pydantic runs the validators; a ValidationError is raised to
\* the caller, or the configuration is handed on
LoadConfig ==
  /\ mainPc = "load"
  /\ IF validate(cfg)
       THEN mainPc' = "plan" /\ UNCHANGED raised
       ELSE mainPc' = "rejected" /\ raised' = TRUE
  /\ UNCHANGED << cfg, sfOpps, runNo, clock, runStatus, selected, queue, cand,
                  thr, ledger, connOpen, external, createCalls, stats, errors,
                  events, tlsClients, faults, ledgerAtStart, plans, cleanup,
                  ledgerOps, built, queryCalls, statusWrites >>

\* ActivityPlanner(config.activity, seed).create_plan(opportunity) on the
\* loaded configuration: the plan is returned, or an exception is raised
CallPlanner ==
  /\ mainPc = "plan"
  /\ \E seed \in ConfigSeeds, o \in Opps :
       IF create_plan_raises(cfg, seed, o)
         THEN mainPc' = "plan_raised" /\ raised' = TRUE /\ UNCHANGED plans
         ELSE /\ mainPc' = "planned"
              /\ plans' = << [ opp |-> o, now |-> clock,
                               plan |-> create_plan(cfg, seed, o, clock) ] >>
              /\ UNCHANGED raised
  /\ UNCHANGED << cfg, sfOpps, runNo, clock, runStatus, selected, queue, cand,
                  thr, ledger, connOpen, external, createCalls, stats, errors,
                  events, tlsClients, faults, ledgerAtStart, cleanup,
                  ledgerOps, built, queryCalls, statusWrites >>

NextConfig == LoadConfig \/ CallPlanner

SpecConfig == InitConfig /\ [][NextConfig]_vars

\* ------------------------------------------- the scorecard client alone
LevelSteps == 4  \* steps in which coverage_target and confidence_floor go from 0 to 1

\* the values of [0, 1] a validated coverage_target or confidence_floor takes,
\* in hundredths
Levels == { (k * 100) \div LevelSteps : k \in 0..LevelSteps }

\* a ScorecardClient in heuristic mode on a validated scorecards section,
\* and the seed of the run
InitPopulate ==
  /\ cfg \in [ templates : { << "MEDDICC" >> }, coverage_target : Levels,
               confidence_floor : Levels, mode : { "heuristic" }, seed : Seeds ]
  /\ NoRunner

\* upsert_scorecard(opportunity, template, seed): the scorecard is kept
CallUpsertScorecard ==
  /\ mainPc = "load"
  /\ mainPc' = "populated"
  /\ \E o \in Opps :
       plans' = << [ opp |-> o,
                    scorecard |-> upsert_scorecard(cfg, cfg.seed, o, cfg.templates[1]) ] >>
  /\ UNCHANGED << cfg, sfOpps, runNo, clock, runStatus, raised, selected, queue,
                  cand, thr, ledger, connOpen, external, createCalls, stats, errors,
                  events, tlsClients, faults, ledgerAtStart, cleanup,
                  ledgerOps, built, queryCalls, statusWrites >>

NextPopulate == CallUpsertScorecard

SpecPopulate == InitPopulate /\ [][NextPopulate]_vars

\* ------------------------------------- one candidate's plan, item by item
\* an activity section with a one-day window on each side, one past meeting
\* and three emails
CrowdedActivityConfig ==
  [ past_days |-> 1, future_days |-> 1,
    past_min |-> 1, past_max |-> 1, future_min |-> 0, future_max |-> 0,
    duration_minutes |-> << 30, 60 >>,
    email_min |-> 3, email_max |-> 3,
    participant_roles |-> << "Champion", "Economic Buyer" >> ]

\* the frame of _create_activities at item i of the meetings or the emails of
\* the plan, or past the last item
ItemFrame(opp, plan, kind, i) ==
  IF kind = "meeting" /\ i <= Len(plan.meetings)
    THEN [ Idle EXCEPT !.opp = opp, !.pc = "create_item", !.kind = "meeting", !.i = i ]
  ELSE IF kind = "meeting"
    THEN IF Len(plan.emails) >= 1
           THEN [ Idle EXCEPT !.opp = opp, !.pc = "create_item", !.kind = "email", !.i = 1 ]
           ELSE [ Idle EXCEPT !.opp = opp, !.pc = "applied" ]
  ELSE IF i <= Len(plan.emails)
    THEN [ Idle EXCEPT !.opp = opp, !.pc = "create_item", !.kind = "email", !.i = i ]
  ELSE [ Idle EXCEPT !.opp = opp, !.pc = "applied" ]

\* _create_activities in a first sequential run in external_state mode:
\* create_plan for a candidate
PlanCandidate ==
  /\ plans = << >>
  /\ \E o \in Opps :
       LET plan == create_plan(CrowdedActivityConfig, cfg.seed, o, clock) IN
       /\ plans' = << [ opp |-> o, now |-> clock, plan |-> plan ] >>
       /\ thr' = [ thr EXCEPT ![0] = ItemFrame(o, plan, "meeting", 1) ]
  /\ UNCHANGED << cfg, sfOpps, runNo, clock, mainPc, runStatus, raised, selected,
                  queue, cand, ledger, connOpen, external, createCalls, stats,
                  errors, events, tlsClients, faults, ledgerAtStart, cleanup,
                  ledgerOps, built, queryCalls, statusWrites >>

\* _create_meeting / _create_email for the next item, no call failing: the
\* item is skipped if has_activity finds its signature; if not, the create
\* call is made, logged and counted and record_activity enters the row
CreateItem ==
  LET w == thr[0]
      plan == plans[1].plan
      item == IF w.kind = "meeting" THEN plan.meetings[w.i] ELSE plan.emails[w.i]
  IN
  /\ w.pc = "create_item"
  /\ IF has_activity(ledger, RunId, w.opp, w.kind, Timestamp(item, w.kind), item.subject)
       THEN /\ events' = events (+) LogEntry(w.kind \o "_skipped", w.opp, << w.kind, w.i >>)
            /\ UNCHANGED << external, createCalls, stats, ledger >>
       ELSE /\ external' = external \cup
                 { [ id |-> NewId(w), object |-> ObjectOf(w.kind), what_id |-> w.opp,
                     subject |-> item.subject, at |-> Timestamp(item, w.kind),
                     tag |-> RunTag, thread |-> 0, client |-> SharedClient ] }
            /\ createCalls' = createCalls + 1
            /\ events' = events (+) LogEntry(w.kind \o "_created", w.opp, << w.kind, w.i >>)
            /\ stats' = [ stats EXCEPT ![StatOf(w.kind)] = @ + 1 ]
            /\ ledger' = record_activity(ledger, RunId, w.opp, w.kind,
                                         Timestamp(item, w.kind), item.subject,
                                         NewId(w), clock)
  /\ thr' = [ thr EXCEPT ![0] = ItemFrame(w.opp, plan, w.kind, w.i + 1) ]
  /\ UNCHANGED << cfg, sfOpps, runNo, clock, mainPc, runStatus, raised, selected,
                  queue, cand, connOpen, errors, tlsClients, faults, ledgerAtStart,
                  plans, cleanup, ledgerOps, built, queryCalls, statusWrites >>

NextItems == PlanCandidate \/ CreateItem \/ TimePasses

SpecItems == InitPlan /\ [][NextItems]_vars

\* ---------------------------------------------- loads and their ledgers
MaxRunIds == 2   \* values the eight hex digits of a run id are drawn from

\* _generate_run_id: f"run-{uuid.uuid4().hex[:8]}", 32 random bits
RunIdSpace == 1..MaxRunIds

\* ResolvedConfig.__init__: log_dir / f"{utcnow:%Y-%m-%dT%H-%M-%SZ}_{name}_{run_id}",
\* for one log_dir and one run name
run_dir_of(now, run_id) == << now, run_id >>

\* nothing was loaded yet; `plans` holds the ResolvedConfigs of the loads with
\* what their runs did, `ledger` the state.sqlite of each run directory
InitLoads ==
  /\ cfg \in [ concurrency : { 1 }, max_opps : { NumOpps }, tag_mode : { FALSE },
               seed : { RunSeed },
               templates : { RunScorecardsConfig.templates }, dry_run : { FALSE } ]
  /\ sfOpps = [ i \in 1..NumOpps |-> i ]
  /\ runNo = 1
  /\ clock = 0
  /\ mainPc = "load"
  /\ runStatus = "running"
  /\ raised = FALSE
  /\ selected = << >>
  /\ queue = << >>
  /\ cand = [ o \in Opps |-> "Pending" ]
  /\ thr = [ t \in Threads |-> Idle ]
  /\ ledger = << >>
  /\ connOpen = FALSE
  /\ external = {}
  /\ createCalls = 0
  /\ stats = NewStats
  /\ errors = EmptyBag
  /\ events = EmptyBag
  /\ tlsClients = {}
  /\ faults = {}
  /\ ledgerAtStart = EmptyLedger
  /\ plans = << >>
  /\ cleanup = NoCleanup
  /\ ledgerOps = EmptyLedger
  /\ built = [ t \in Threads |-> 0 ]
  /\ queryCalls = 0
  /\ statusWrites = 0

\* load_config, then DemoGenRunner(resolved_config): the run id is drawn, the
\* run directory named, and StateStore opens (creating it if it is not
\* there) the state.sqlite of that directory
LoadAndBuild ==
  /\ Len(plans) < NumRuns
  /\ \E id \in RunIdSpace :
       LET dir == run_dir_of(clock, id) IN
       /\ plans' = Append(plans, [ run_id |-> id, run_dir |-> dir,
                                   recorded |-> {}, found |-> {} ])
       /\ ledger' = IF dir \in DOMAIN ledger THEN ledger
                    ELSE [ d \in DOMAIN ledger \cup { dir } |->
                             IF d = dir THEN EmptyLedger ELSE ledger[d] ]
  /\ UNCHANGED << cfg, sfOpps, runNo, clock, mainPc, runStatus, raised, selected,
                  queue, cand, thr, connOpen, external, createCalls, stats,
                  errors, events, tlsClients, faults, ledgerAtStart, cleanup,
                  ledgerOps, built, queryCalls, statusWrites >>

\* _process_opportunity of the run of load n, for a candidate it has not
\* handled: has_opportunity finds a row (the candidate is skipped), or the
\* candidate is processed and record_opportunity enters it
ProcessIn(n, o) ==
  LET load == plans[n] IN
  /\ o \notin load.recorded \cup load.found
  /\ IF has_opportunity(ledger[load.run_dir], load.run_id, o)
       THEN /\ plans' = [ plans EXCEPT ![n].found = @ \cup { o } ]
            /\ UNCHANGED ledger
       ELSE /\ plans' = [ plans EXCEPT ![n].recorded = @ \cup { o } ]
            /\ ledger' = [ ledger EXCEPT ![load.run_dir] =
                             record_opportunity(@, load.run_id, o, clock) ]
  /\ UNCHANGED << cfg, sfOpps, runNo, clock, mainPc, runStatus, raised, selected,
                  queue, cand, thr, connOpen, external, createCalls, stats,
                  errors, events, tlsClients, faults, ledgerAtStart, cleanup,
                  ledgerOps, built, queryCalls, statusWrites >>

NextLoads ==
  \/ LoadAndBuild
  \/ \E n \in DOMAIN plans, o \in Opps : ProcessIn(n, o)
  \/ TimePasses

SpecLoads == InitLoads /\ [][NextLoads]_vars

\* ------------------------------------------------------------ properties
\* the opportunities run() works on, and the ones it will select
Selected == { selected[n] : n \in DOMAIN selected }

Candidates == { sfOpps[n] : n \in 1..Min(Len(sfOpps), cfg.max_opps) }

RunCompleted == mainPc = "done" /\ runStatus = "completed"

\* Salesforce holds a record that this run made for item i of the plan
CreatedInRun(o, kind, i) == \E r \in external : r.id = << runNo, o, kind, i >>

\* Salesforce holds a record that some run made for item i of the plan
CreatedEver(o, kind, i) ==
  \E r \in external : r.id[2] = o /\ r.id[3] = kind /\ r.id[4] = i

CreateFailed(o, kind, i) ==
  [ run |-> runNo, opp |-> o, what |-> "create", item |-> << kind, i, 0 >> ] \in faults

Attempted(o, kind, i) == CreatedInRun(o, kind, i) \/ CreateFailed(o, kind, i)

ScorecardApplied(o, j) ==
  BagIn([ run |-> runNo, what |-> "scorecard_upserted", opp |-> o,
          item |-> << "scorecard", j >> ], events)

FullyAttempted(o) ==
  /\ \A kind \in { "meeting", "email" } :
       \A i \in DOMAIN Items(o, kind) : Attempted(o, kind, i)
  /\ \A j \in DOMAIN Templates : ScorecardApplied(o, j)

\* a ledger call made for the opportunity raised in this run
LedgerFailed(o) ==
  \/ \E f \in faults : f.run = runNo /\ f.opp = o /\ f.what # "create"
  \/ HasStore /\ Pooled

FaultFreeRun == \A f \in faults : f.run # runNo

RECURSIVE SumOver(_, _)
SumOver(S, f) ==
  IF S = {} THEN 0
  ELSE LET x == CHOOSE y \in S : TRUE IN f[x] + SumOver(S \ { x }, f)

MaxOver(S) == IF S = {} THEN 0 ELSE CHOOSE m \in S : \A x \in S : x <= m

\* C1 (as amended): in external_state mode, a run started when the ledger
\* already has every candidate as processed makes no create_event/create_task
\* call and leaves the ledger with exactly the rows it had
C1_RerunOfRecordedCandidates ==
  ( /\ runNo > 1
    /\ \A o \in Candidates :
         \E r \in ledgerAtStart.opportunities : r.run_id = RunId /\ r.opp_id = o )
  => createCalls = 0 /\ ledger = ledgerAtStart

\* a second run has finished over two candidates that the first run created
\* records for and entered in the ledger
C1_Witness ==
  /\ runNo = 2
  /\ RunCompleted
  /\ Len(selected) = 2
  /\ \A o \in Selected : cand[o] = "Skipped"
  /\ external # {}
  /\ ledger.activities # {}
  /\ createCalls = 0

\* C1 as stated: after a first run that selected the candidates and ran to its
\* end, the second run makes no create call and leaves the ledger as it was
C1_AnyRerunCreatesNothing ==
  ( /\ runNo = 2
    /\ \A o \in Candidates :
         BagIn([ run |-> 1, what |-> "opportunity_selected", opp |-> o,
                 item |-> << >> ], events) )
  => createCalls = 0 /\ ledger = ledgerAtStart

\* C2: in external_state mode, a later sequential run in which nothing fails
\* ends with a Salesforce record for every item of every candidate's plan,
\* whatever failed in the runs before it
C2_RerunCompletesThePlan ==
  ( /\ runNo > 1
    /\ RunCompleted
    /\ ~Pooled
    /\ FaultFreeRun )
  => \A o \in Selected :
       \A kind \in { "meeting", "email" } :
         \A i \in DOMAIN Items(o, kind) : CreatedEver(o, kind, i)

\* a second run has finished without any failure of its own, after a first run
\* in which a create call failed
C2_Witness ==
  /\ runNo = 2
  /\ RunCompleted
  /\ ~Pooled
  /\ FaultFreeRun
  /\ \E f \in faults : f.run = 1 /\ f.what = "create"

\* C3: when create_event fails for a meeting, the error is logged with the
\* candidate's id and the stage meeting_creation, and by the end of the run
\* every item and scorecard of every selected candidate whose ledger calls
\* worked, the others of the same candidate included, has been attempted
C3_MeetingFailureIsolated ==
  \A f \in faults :
    (f.run = runNo /\ f.what = "create" /\ f.item[1] = "meeting") =>
      /\ BagIn([ run |-> runNo, what |-> "meeting_creation", opp |-> f.opp,
                 item |-> << "meeting", f.item[2] >> ], errors)
      /\ RunCompleted =>
           \A o \in Selected : ~LedgerFailed(o) => FullyAttempted(o)

\* the run has ended after the create call of the first of the two meetings of
\* candidate 2 failed: its second meeting, its email, its scorecard and the
\* other candidate were attempted
C3_Witness ==
  /\ RunCompleted
  /\ Selected = { 1, 2 }
  /\ CreateFailed(2, "meeting", 1)
  /\ Len(Items(2, "meeting")) = 2
  /\ CreatedInRun(2, "meeting", 2)
  /\ FullyAttempted(1)
  /\ FullyAttempted(2)

\* C4: a pooled run in tag mode in which no call fails ends with the counters
\* of a sequential run: one count per planned meeting, email, scorecard and
\* scorecard answer of the selected candidates
C4_PooledCountsAsSequential ==
  ( /\ RunCompleted
    /\ cfg.tag_mode
    /\ faults = {} )
  => /\ stats.meetings_created =
          SumOver(Selected, [ o \in Opps |-> Len(Plan(o).meetings) ])
     /\ stats.emails_created =
          SumOver(Selected, [ o \in Opps |-> Len(Plan(o).emails) ])
     /\ stats.scorecards_created =
          SumOver(Selected, [ o \in Opps |-> Len(Templates) ])
     /\ stats.scorecard_answers_written =
          SumOver(Selected,
                  [ o \in Opps |->
                      SumOver(DOMAIN Templates,
                              [ j \in DOMAIN Templates |->
                                  Len(Scorecard(o, j).answers) ]) ])

\* C5: no candidate's processing fails unless a ledger call made for it met
\* an I/O error: the use of the connection by the pool's threads makes no
\* ledger call fail
C5_NoCrossWorkerLedgerFailure ==
  \A o \in Opps :
    cand[o] = "Failed" =>
      \E f \in faults : f.run = runNo /\ f.opp = o /\ f.what \in LedgerPcs

\* where the processing of a candidate is
Stage(o) ==
  IF \E t \in Threads : thr[t].pc # "idle" /\ thr[t].opp = o
    THEN LET w == thr[CHOOSE t \in Threads : thr[t].pc # "idle" /\ thr[t].opp = o]
         IN  CASE w.pc = "has_opportunity" -> "Pending"
               [] w.pc = "except" \/ (w.pc = "inc_write" /\ w.ret = "failed") -> "Failed"
               [] w.pc = "record_opportunity" -> "ScorecardsApplied"
               [] w.kind = "scorecard" -> "Scorecards"
               [] OTHER -> "Activities"
    ELSE cand[o]

StageMoves ==
  { << "Pending", "Skipped" >>, << "Pending", "Activities" >>,
    << "Pending", "Failed" >>, << "Activities", "Scorecards" >>,
    << "Activities", "Failed" >>, << "Scorecards", "ScorecardsApplied" >>,
    << "Scorecards", "Applied" >>, << "Scorecards", "Failed" >>,
    << "ScorecardsApplied", "Recorded" >>, << "ScorecardsApplied", "Failed" >> }

C7_SelectionFailureIsFatal ==
  raised =>
    /\ mainPc = "done"
    /\ runStatus = "failed"
    /\ selected = << >>
    /\ \A o \in Opps : cand[o] = "Pending"
    /\ \A t \in Threads : thr[t].pc = "idle"
    /\ createCalls = 0
    /\ ledger = ledgerAtStart
    /\ stats.failures = 1
    /\ \A e \in BagToSet(errors) : e.run = runNo => e.what = "pipeline"
    /\ CopiesIn([ run |-> runNo, what |-> "pipeline", opp |-> 0, item |-> << >> ],
                errors) = 1

\* run() has raised out of the selection
C7_Witness ==
  /\ raised
  /\ mainPc = "done"
  /\ runStatus = "failed"
  /\ Len(sfOpps) = 2

\* C8: at the end of a run in which no call failed the coverage statistic is
\* the largest coverage of the scorecards the run applied
C8_CoverageIsMaximum ==
  (RunCompleted /\ faults = {}) =>
    stats.coverage =
      MaxOver({ Scorecard(o, j).coverage :
                  << o, j >> \in { p \in Opps \X DOMAIN Templates :
                                     ScorecardApplied(p[1], p[2]) } })

\* C9: the plans returned by the calls of create_plan on one planner for one
\* opportunity are all the same, whenever the calls were made
C9_PlansIdentical ==
  \A m, n \in DOMAIN plans : plans[m].plan = plans[n].plan

\* C10: when a run checks an item of a plan whose record an earlier run
\* entered in the ledger, has_activity finds it
C10_RecordedActivityFound ==
  \A t \in Threads :
    LET w == thr[t] IN
    ( /\ w.pc = "has_activity"
      /\ connOpen
      /\ \E r \in ledger.activities :
           /\ r.run_id = RunId
           /\ r.opp_id = w.opp
           /\ r.activity_id[1] < runNo
           /\ r.activity_id[3] = w.kind
           /\ r.activity_id[4] = w.i )
    => has_activity(ledger, RunId, w.opp, w.kind,
                    Timestamp(Items(w.opp, w.kind)[w.i], w.kind),
                    Items(w.opp, w.kind)[w.i].subject)
\* ---------------------------------------------------------------- cleanup
CleanupEnded == cleanup.pc \in { "returned", "raised" }

DeleteFailed(id) == \E f \in faults : f.what = "delete" /\ f.item = id

\* the run's ledger rows of one activity type
RecordedRows(type) ==
  { r \in ledger.activities : r.run_id = RunId /\ r.activity_type = type }

\* C11: in tag mode, when cleanup_run has ended it has called delete on every
\* Event and every Task that carried the run id when it started, and it has
\* returned the two counts, whether or not a delete failed
C11_TagCleanupAttemptsEveryRecord ==
  (cfg.tag_mode /\ CleanupEnded) =>
    /\ cleanup.pc = "returned"
    /\ \A id \in cleanup.targets : CopiesIn(id, cleanup.attempts) >= 1
    /\ cleanup.deleted.Event + cleanup.deleted.Task
         = Cardinality({ id \in cleanup.targets : ~DeleteFailed(id) })

\* C12: in external_state mode cleanup_run never raises out of its loop, and
\* when it has returned it has called delete exactly once for the id of every
\* activity row of the run and for nothing else, and its Event and Task counts
\* are the numbers of meeting and email rows whose delete succeeded
C12_LedgerCleanupBestEffort ==
  ~cfg.tag_mode =>
    /\ cleanup.pc # "raised"
    /\ cleanup.pc = "returned" =>
         /\ \A r \in ledger.activities :
              r.run_id = RunId => CopiesIn(r.activity_id, cleanup.attempts) = 1
         /\ \A id \in BagToSet(cleanup.attempts) :
              \E r \in ledger.activities : r.run_id = RunId /\ r.activity_id = id
         /\ cleanup.deleted.Event
              = Cardinality({ r \in RecordedRows("meeting") : ~DeleteFailed(r.activity_id) })
         /\ cleanup.deleted.Task
              = Cardinality({ r \in RecordedRows("email") : ~DeleteFailed(r.activity_id) })
         /\ \A r \in ledger.activities :
              (\E x \in external : x.id = r.activity_id) <=> DeleteFailed(r.activity_id)

\* a cleanup that returned after one delete failed and a later one succeeded
C12_Witness ==
  /\ ~cfg.tag_mode
  /\ cleanup.pc = "returned"
  /\ \E id \in cleanup.targets : DeleteFailed(id)
  /\ cleanup.deleted.Event + cleanup.deleted.Task >= 1
  /\ cleanup.deleted.Event + cleanup.deleted.Task = Cardinality(cleanup.targets) - 1

\* ----------------------------------------------------------- ledger algebra
\* the stored rows, each as its primary key and the values it holds
StoredRows(l) ==
  [ opportunities |->
      { [ key |-> << r.run_id, r.opp_id >>, values |-> << r.selected_at >> ] :
          r \in l.opportunities },
    activities |->
      { [ key |-> << r.run_id, r.opp_id, r.signature >>,
          values |-> << r.activity_id, r.created_at >> ] : r \in l.activities },
    scorecards |->
      { [ key |-> << r.run_id, r.opp_id, r.template >>,
          values |-> << r.scorecard_id, r.created_at >> ] : r \in l.scorecards },
    scorecard_answers |->
      { [ key |-> << r.run_id, r.scorecard_id, r.question_id >>,
          values |-> << r.confidence, r.created_at >> ] : r \in l.scorecard_answers } ]

WasRecorded(ops, key) == \E op \in ops : op.key = key

FirstCalls(ops) == { [ key |-> op.key, values |-> op.values ] : op \in ops }

\* C13: no step removes or changes a stored row; the stored rows are, for every
\* key a record* call was made with, one row with the values of the first such
\* call; and each has* answers true exactly for the keys recorded before
C13_InsertIfAbsent ==
  /\ [][/\ ledger.opportunities \subseteq ledger'.opportunities
        /\ ledger.activities \subseteq ledger'.activities
        /\ ledger.scorecards \subseteq ledger'.scorecards
        /\ ledger.scorecard_answers \subseteq ledger'.scorecard_answers]_vars
  /\ [](\A table \in DOMAIN ledger :
          StoredRows(ledger)[table] = FirstCalls(ledgerOps[table]))
  /\ [](\A run_id \in RunIds, opp_id \in OppIds :
          /\ has_opportunity(ledger, run_id, opp_id)
               <=> WasRecorded(ledgerOps.opportunities, << run_id, opp_id >>)
          /\ \A type \in ActivityTypes, timestamp \in Stamps :
               has_activity(ledger, run_id, opp_id, type, timestamp, meeting_subjects[1])
                 <=> WasRecorded(ledgerOps.activities,
                       << run_id, opp_id,
                          generate_activity_signature(type, timestamp, meeting_subjects[1]) >>)
          /\ \A j \in DOMAIN Templates :
               has_scorecard(ledger, run_id, opp_id, Templates[j])
                 <=> WasRecorded(ledgerOps.scorecards,
                       << run_id, opp_id, Templates[j] >>)
          /\ \A v \in Stamps, q \in DOMAIN meddicc_questions :
               has_scorecard_answer(ledger, run_id, << v, opp_id >>, meddicc_questions[q])
                 <=> WasRecorded(ledgerOps.scorecard_answers,
                       << run_id, << v, opp_id >>, meddicc_questions[q] >>))

\* an activity and an opportunity were each recorded a second time, with
\* another external id and another timestamp
C13_Witness ==
  /\ \E op \in ledgerOps.activities : op.again
  /\ \E op \in ledgerOps.opportunities : op.again

\* ------------------------------------------- order within one candidate
Skipped(o, kind, i) ==
  BagIn([ run |-> runNo, what |-> kind \o "_skipped", opp |-> o,
          item |-> << kind, i >> ], events)

\* item i of the plan was applied in this run: skipped on the ledger's word,
\* or its create call made
Applied(o, kind, i) == Skipped(o, kind, i) \/ Attempted(o, kind, i)

AllApplied(o, kind) == \A i \in DOMAIN Items(o, kind) : Applied(o, kind, i)

NoneApplied(o, kind) == \A i \in DOMAIN Items(o, kind) : ~Applied(o, kind, i)

ScorecardDone(o, j) == ScorecardApplied(o, j) \/ Skipped(o, "scorecard", j)

AllScorecardsDone(o) == \A j \in DOMAIN Templates : ScorecardDone(o, j)

NoScorecardDone(o) == \A j \in DOMAIN Templates : ~ScorecardDone(o, j)

\* how far the frame of _process_opportunity is: 0 before the plan is made,
\* 1 in the meetings, 2 in the emails, 3 in the scorecards, 4 at
\* record_opportunity, 5 when it is over
Phase(w) ==
  CASE w.pc \in { "has_opportunity", "create_plan" } -> 0
    [] w.pc = "record_opportunity" -> 4
    [] w.pc \in { "idle", "except" } \/ w.kind = "none" -> 5
    [] w.kind = "meeting" -> 1
    [] w.kind = "email" -> 2
    [] OTHER -> 3

\* C14: while a candidate is processed, no create call is made for it before
\* its plan exists, no email is applied before every meeting has been, no
\* scorecard before every meeting and email has been, and record_opportunity
\* is reached, and the row written, only when every meeting, email and
\* scorecard has been attempted or skipped
C14_OrderWithinCandidate ==
  /\ \A t \in Threads :
       LET w == thr[t]
           o == w.opp
       IN  /\ Phase(w) = 0 =>
                \A r \in external : ~(r.id[1] = runNo /\ r.id[2] = o)
           /\ Phase(w) \in { 0, 1 } => NoneApplied(o, "email") /\ NoScorecardDone(o)
           /\ Phase(w) = 1 =>
                \A i \in DOMAIN Items(o, "meeting") :
                  (i < w.i => Applied(o, "meeting", i)) /\ (i > w.i => ~Applied(o, "meeting", i))
           /\ Phase(w) = 2 => AllApplied(o, "meeting") /\ NoScorecardDone(o)
           /\ Phase(w) = 3 => AllApplied(o, "meeting") /\ AllApplied(o, "email")
           /\ Phase(w) = 4 =>
                AllApplied(o, "meeting") /\ AllApplied(o, "email") /\ AllScorecardsDone(o)
  /\ \A r \in ledger.opportunities :
       AllApplied(r.opp_id, "meeting") /\ AllApplied(r.opp_id, "email")
         /\ AllScorecardsDone(r.opp_id)

\* a candidate with two meetings and an email is at record_opportunity
C14_Witness ==
  \E t \in Threads :
    /\ thr[t].pc = "record_opportunity"
    /\ Len(Items(thr[t].opp, "meeting")) = 2
    /\ Len(Items(thr[t].opp, "email")) >= 1
    /\ CreateFailed(thr[t].opp, "meeting", 1)
    /\ CreatedInRun(thr[t].opp, "meeting", 2)

\* ------------------------------------------------ idempotency mechanisms
\* C15: in tag mode there is no ledger (no connection, no row, no frame at a
\* ledger call) and every record created carries the run id in the tag field;
\* in external_state mode the ledger is there while the run lasts and no
\* record created carries a tag
C15_OneMechanism ==
  /\ HasStore <=> ~cfg.tag_mode
  /\ cfg.tag_mode =>
       /\ ~connOpen
       /\ ledger = EmptyLedger
       /\ \A t \in Threads : thr[t].pc \notin LedgerPcs
       /\ \A r \in external : r.tag = RunId
  /\ ~cfg.tag_mode =>
       /\ mainPc # "done" => connOpen
       /\ \A r \in external : r.tag = "none"

\* a tag mode run has ended with Events and Tasks created
C15_Witness ==
  /\ cfg.tag_mode
  /\ RunCompleted
  /\ \E r \in external : r.object = "Event"
  /\ \E r \in external : r.object = "Task"

\* ------------------------------------------------------------- clients
\* the records this run's create calls made
CreatedThisRun == { r \in external : r.id[1] = runNo }

\* C16: in a run that is not pooled (concurrency <= 1, or fewer than two
\* candidates) every create call is made in the calling thread through the
\* client the runner was built with, and _get_sf_client constructs no client
C16_SequentialUsesSharedClient ==
  ~Pooled =>
    /\ \A t \in Workers : thr[t].pc = "idle"
    /\ \A r \in CreatedThisRun : r.thread = 0 /\ r.client = SharedClient
    /\ \A t \in Threads : built[t] = 0

\* C17: in a pooled run every create call is made by a pool thread through a
\* client constructed in that thread; a thread constructs at most one client,
\* all its create calls go through it, and no two threads share one
C17_OneClientPerWorker ==
  Pooled =>
    /\ \A t \in Threads : built[t] <= 1
    /\ \A r \in CreatedThisRun :
         /\ r.thread \in Workers
         /\ r.client # SharedClient
         /\ r.client[2] = r.thread
    /\ \A r1, r2 \in CreatedThisRun : r1.client = r2.client <=> r1.thread = r2.thread

\* one pool thread has made two create calls, and the other pool thread has
\* made one too
C17_Witness ==
  /\ Pooled
  /\ \E r1, r2, r3 \in CreatedThisRun :
       /\ r1.thread = r2.thread
       /\ r1.id # r2.id
       /\ r3.thread # r1.thread

\* ----------------------------------------------------------------- logs
\* the pool threads that are in log_error, between its append to errors.jsonl
\* and the write of the failure counter
InLogError == { t \in Workers : thr[t].pc = "inc_write" /\ thr[t].stat = "failures" }

\* the entries this run appended to errors.jsonl
ErrorsLogged == SumOver({ e \in BagToSet(errors) : e.run = runNo }, errors)

\* C18: at no time are two pool threads inside log_error, and when the run has
\* ended the failure counter is the number of entries log_error appended
C18_LogWritesSerialized ==
  /\ Cardinality(InLogError) <= 1
  /\ RunCompleted => stats.failures = ErrorsLogged

\* ----------------------------------------------------------- termination
Terminal == { "Recorded", "Applied", "Skipped", "Failed" }

\* C19: every run() ends; one that did not raise ends with the status
\* completed; and whenever the status is completed the queue is empty, no
\* thread is inside _process_opportunity and every selected candidate is
\* recorded (applied, without a ledger), skipped or failed
C19_RunTerminates ==
  /\ <>(mainPc = "done")
  /\ [](mainPc = "done" /\ ~raised => runStatus = "completed")
  /\ [](runStatus = "completed" =>
          /\ queue = << >>
          /\ \A t \in Threads : thr[t].pc = "idle"
          /\ \A o \in Selected : cand[o] \in Terminal)

\* a pooled run has ended completed with one candidate applied and the other
\* processed after a failed create call
C19_Witness ==
  /\ RunCompleted
  /\ Pooled
  /\ \A o \in Opps : cand[o] = "Applied"
  /\ \E o \in Opps, i \in 1..2 : CreateFailed(o, "meeting", i)

\* -------------------------------------------------------------- selection
Truncated == [ run |-> runNo, what |-> "opportunity_truncated", opp |-> 0, item |-> << >> ]

\* C20: once _select_opportunities has returned, the query was made once; if
\* it returned more than max_opps opportunities the selected ones are the
\* first max_opps of them, no more, and one opportunity_truncated event is in
\* the log; if not, all are selected and there is no such event; each selected
\* one has its own opportunity_selected event, opps_selected is their number,
\* and no other opportunity is processed
C20_SelectionIsCapped ==
  (mainPc # "select" /\ ~raised) =>
    /\ queryCalls = 1
    /\ \A n \in DOMAIN selected : selected[n] = sfOpps[n]
    /\ IF Len(sfOpps) > cfg.max_opps
         THEN /\ Len(selected) <= cfg.max_opps
              /\ cfg.max_opps >= 0 => Len(selected) = cfg.max_opps
              /\ CopiesIn(Truncated, events) = 1
         ELSE /\ selected = sfOpps
              /\ CopiesIn(Truncated, events) = 0
    /\ \A o \in Selected :
         CopiesIn([ run |-> runNo, what |-> "opportunity_selected", opp |-> o,
                    item |-> << >> ], events) = 1
    /\ stats.opps_selected = Len(selected)
    /\ \A o \in Opps : cand[o] # "Pending" => o \in Selected

\* ------------------------------------------------------------ the pool
InProgress == { t \in Threads : thr[t].pc # "idle" }

CountWhen(items, when) == Cardinality({ n \in DOMAIN items : items[n].when = when })

\* C23: the plan create_plan returned for a validated configuration has a
\* number of past meetings in [past_min, past_max], of future meetings in
\* [future_min, future_max] and of emails in [email_min, email_max]
C23_CountsInBounds ==
  \A n \in DOMAIN plans :
    LET plan == plans[n].plan IN
    /\ CountWhen(plan.meetings, "past") \in cfg.past_min..cfg.past_max
    /\ CountWhen(plan.meetings, "future") \in cfg.future_min..cfg.future_max
    /\ Len(plan.emails) \in cfg.email_min..cfg.email_max

\* a plan was returned with a past meeting count above the minimum and a
\* future meeting count at the minimum of a range of two, and five emails
C23_Witness ==
  /\ mainPc = "planned"
  /\ cfg.past_min < cfg.past_max
  /\ cfg.future_min < cfg.future_max
  /\ cfg.email_min = MaxEmails
  /\ CountWhen(plans[1].plan.meetings, "past") = cfg.past_max
  /\ CountWhen(plans[1].plan.meetings, "future") = cfg.future_min

\* C24: of the n emails of a returned plan the first floor(0.85 n) are past
\* emails and the other n - floor(0.85 n) are future emails; of five, four
\* are past and one is future
C24_EmailSplit ==
  \A k \in DOMAIN plans :
    LET emails == plans[k].plan.emails
        n == Len(emails)
        past == (85 * n) \div 100
    IN  /\ \A i \in 1..n : emails[i].when = (IF i <= past THEN "past" ELSE "future")
        /\ CountWhen(emails, "past") = past
        /\ CountWhen(emails, "future") = n - past
        /\ n = 5 => CountWhen(emails, "past") = 4 /\ CountWhen(emails, "future") = 1

\* a plan with five emails was returned
C24_Witness ==
  /\ mainPc = "planned"
  /\ Len(plans[1].plan.emails) = 5

\* C26: create_plan does not raise on a configuration the validators accepted
C26_ValidatedConfigPlans ==
  validate(cfg) => mainPc # "plan_raised"

\* ------------------------------------------------ independence of entities
\* C22: what is generated for a candidate is the same whether or not another
\* candidate was generated for before it: two generations for one candidate
\* with the same seed and configuration give the same plan and the same
\* scorecard answers
C22_DependsOnSeedAndIdOnly ==
  \A m, n \in DOMAIN plans :
    plans[m].opp = plans[n].opp =>
      /\ plans[m].plan = plans[n].plan
      /\ plans[m].scorecard.answers = plans[n].scorecard.answers

\* the scorecard half of C22 alone
ScorecardDependsOnSeedAndIdOnly ==
  \A m, n \in DOMAIN plans :
    plans[m].opp = plans[n].opp =>
      plans[m].scorecard.answers = plans[n].scorecard.answers

\* ----------------------------------------------------- scorecard answers
\* C25: the answers of a populated scorecard are answers to pairwise distinct
\* questions of the template, there are at most
\* k = floor(question_count * coverage_target) of them (exactly k when the
\* floor drops none), and each has a confidence at or above the floor
C25_AnswersWithinTarget ==
  \A n \in DOMAIN plans :
    LET answers == plans[n].scorecard.answers
        k == (Len(meddicc_questions) * cfg.coverage_target) \div 100
    IN  /\ Len(answers) <= k
        /\ cfg.confidence_floor <= 50 => Len(answers) = k
        /\ \A i, j \in DOMAIN answers :
             answers[i].question_id = answers[j].question_id => i = j
        /\ \A i \in DOMAIN answers :
             /\ answers[i].confidence >= cfg.confidence_floor
             /\ \E q \in DOMAIN meddicc_questions :
                  meddicc_questions[q] = answers[i].question_id

\* a scorecard was populated with at least two answers after at least one
\* drawn question was dropped for its confidence
C25_Witness ==
  /\ mainPc = "populated"
  /\ cfg.confidence_floor > 50
  /\ Len(plans[1].scorecard.answers) >= 2
  /\ Len(plans[1].scorecard.answers)
       < (Len(meddicc_questions) * cfg.coverage_target) \div 100

\* ------------------------------------------------------ unknown templates
GenerationError(o, j) ==
  [ run |-> runNo, what |-> "scorecard_generation", opp |-> o, item |-> << "scorecard", j >> ]

\* the entries of events.jsonl this run wrote for one action
EventCount(what) ==
  LET S == { e \in BagToSet(events) : e.run = runNo /\ e.what = what }
  IN  SumOver(S, [ e \in S |-> CopiesIn(e, events) ])

\* C27: for a template of the configuration that is not registered no
\* scorecard is upserted or recorded and no answer is written, for any
\* candidate; the scorecard counters count the upserted scorecards and the
\* written answers only; and when the run has ended every candidate whose
\* ledger calls did not fail has one scorecard_generation error for that
\* template and was handled to the end, all its registered templates applied
C27_UnknownTemplateSkipped ==
  /\ \A o \in Opps, j \in DOMAIN Templates :
       ~Registered(Templates[j]) =>
         /\ ~ScorecardApplied(o, j)
         /\ \A e \in BagToSet(events) :
              ~(e.what = "scorecard_answer_written" /\ e.opp = o /\ e.item[2] = j)
         /\ \A r \in ledger.scorecards :
              ~(r.opp_id = o /\ r.template = Templates[j])
         /\ CopiesIn(GenerationError(o, j), errors) <= 1
         /\ (RunCompleted /\ o \in Selected /\ ~LedgerFailed(o)) =>
              /\ BagIn(GenerationError(o, j), errors)
              /\ cand[o] \in { "Applied", "Recorded" }
              /\ \A k \in DOMAIN Templates :
                   Registered(Templates[k]) => ScorecardDone(o, k)
  /\ (RunCompleted /\ ~Pooled) =>
       /\ stats.scorecards_created = EventCount("scorecard_upserted")
       /\ stats.scorecard_answers_written = EventCount("scorecard_answer_written")

\* a run with the templates BANT and MEDDICC has ended: candidate 1 has the
\* error of BANT and the scorecard of MEDDICC
C27_Witness ==
  /\ RunCompleted
  /\ Templates = << "BANT", "MEDDICC" >>
  /\ BagIn(GenerationError(1, 1), errors)
  /\ ScorecardApplied(1, 2)
  /\ stats.scorecards_created >= 1
  /\ stats.failures >= 1

\* ------------------------------------------------------------- dry runs
\* a dry run wrote nothing: no record in Salesforce, no row in a ledger, no
\* line in the logs of the run directory
DryRunWritesNothing ==
  cfg.dry_run =>
    /\ external = {}
    /\ ledger = EmptyLedger
    /\ ~connOpen
    /\ errors = EmptyBag
    /\ events = EmptyBag

\* C28: a dry run writes nothing to Salesforce, to the ledger or to the run
\* directory, and when run() has ended it has returned the statistics: no
\* exception reached its caller
C28_DryRunReturnsStats ==
  /\ DryRunWritesNothing
  /\ (cfg.dry_run /\ mainPc = "done") => ~raised

\* ------------------------------------------------ ledger failures at an item
\* the ledger calls made for one item: the lookup before its create call or
\* upsert, the writes after it
ItemLedgerPcs ==
  { "has_activity", "record_activity", "has_scorecard", "record_scorecard",
    "record_answer" }

\* C29: when a ledger call made for an item of a candidate raised, the run
\* does not give the candidate up: at the end of the run every other meeting
\* and email of its plan was applied and every other scorecard was done
C29_LedgerFailureStaysAtItem ==
  \A f \in faults :
    (RunCompleted /\ f.run = runNo /\ f.what \in ItemLedgerPcs) =>
      /\ cand[f.opp] # "Failed"
      /\ \A kind \in { "meeting", "email" } :
           \A i \in DOMAIN Items(f.opp, kind) :
             << kind, i >> # << f.item[1], f.item[2] >> => Applied(f.opp, kind, i)
      /\ \A j \in DOMAIN Templates :
           << "scorecard", j >> # << f.item[1], f.item[2] >> => ScorecardDone(f.opp, j)

\* ------------------------------------------------- the coverage statistic
\* C30: no step of a run makes the coverage statistic smaller
C30_CoverageNeverDecreases ==
  [][ stats'.coverage >= stats.coverage ]_vars

\* ------------------------------------------------- the run-status document
\* the entries this run wrote to errors.jsonl
ErrorCount ==
  LET S == { e \in BagToSet(errors) : e.run = runNo }
  IN  SumOver(S, [ e \in S |-> CopiesIn(e, errors) ])

\* C31: run.json is written once with status running when the runner is
\* built and stays so while run() is at work; when run() has ended it was
\* rewritten once, to failed if run() raised and to completed if it returned;
\* a run that logged errors for candidates or items ends completed all the
\* same, with a failure counter that is positive (in sequential execution,
\* equal to the number of errors logged)
C31_StatusWrittenOnce ==
  /\ mainPc # "done" => runStatus = "running" /\ statusWrites = 1
  /\ mainPc = "done" =>
       /\ statusWrites = 2
       /\ runStatus = (IF raised THEN "failed" ELSE "completed")
       /\ ErrorCount > 0 => stats.failures > 0
       /\ ~Pooled => stats.failures = ErrorCount

\* a run has ended completed after a create call failed and a candidate was
\* given up
C31_Witness ==
  /\ mainPc = "done"
  /\ runStatus = "completed"
  /\ statusWrites = 2
  /\ stats.failures > 0
  /\ \E o \in Opps : cand[o] = "Failed"

\* ------------------------------------------------------ runs of separate loads
\* C32: two loads have different run ids and different run directories, and
\* the run of a load finds in its ledger no candidate that it did not record
\* itself
C32_LoadsAreSeparate ==
  /\ \A m, n \in DOMAIN plans :
       m # n => /\ plans[m].run_id # plans[n].run_id
                /\ plans[m].run_dir # plans[n].run_dir
  /\ \A n \in DOMAIN plans : plans[n].found = {}

\* the ledger half of C32 for loads whose run ids differ
DistinctIdsAreSeparate ==
  \A n \in DOMAIN plans :
    (\A m \in DOMAIN plans : m # n => plans[m].run_id # plans[n].run_id)
      => plans[n].found = {}

\* ------------------------------------------------- ledger rows of activities
\* the create call that failed in the step, if one did
NewCreateFaults == { f \in faults' \ faults : f.what = "create" }

\* C33: every row of the ledger's activities table holds the id of a record
\* that a create call made in Salesforce for that opportunity, activity type,
\* timestamp and subject; no row holds the id of a call that failed; and the
\* step in which a create call fails changes neither the ledger nor the
\* meetings_created and emails_created counters
C33_RowsOfReturnedCreates ==
  /\ [](\A r \in ledger.activities :
          /\ \E e \in external :
               /\ e.id = r.activity_id
               /\ e.what_id = r.opp_id
               /\ e.object = ObjectOf(r.activity_type)
               /\ << r.activity_type, e.at, e.subject >> = r.signature
          /\ \A f \in faults :
               f.what = "create" =>
                 r.activity_id # << f.run, f.opp, f.item[1], f.item[2] >>)
  /\ [][ NewCreateFaults # {} =>
           /\ ledger' = ledger
           /\ stats'.meetings_created = stats.meetings_created
           /\ stats'.emails_created = stats.emails_created ]_vars

\* in external_state mode a run has ended with a row for a created item of a
\* candidate one of whose create calls failed
C33_Witness ==
  /\ RunCompleted
  /\ HasStore
  /\ \E f \in faults, r \in ledger.activities :
       /\ f.what = "create"
       /\ f.run = runNo
       /\ r.opp_id = f.opp
       /\ r.activity_id[1] = runNo

\* ------------------------------------------------- one create call per item
\* C34: when every item of a candidate's plan has been handled in a first
\* sequential run on an empty ledger in which no call failed, one create call
\* was made per item: meetings_created and emails_created are the numbers of
\* meetings and of emails of the plan
C34_OneCreatePerItem ==
  thr[0].pc = "applied" =>
    LET plan == plans[1].plan IN
    /\ createCalls = Len(plan.meetings) + Len(plan.emails)
    /\ stats.meetings_created = Len(plan.meetings)
    /\ stats.emails_created = Len(plan.emails)

\* no two items of the plan have the same type, timestamp and subject
NoTwin(plan) ==
  /\ \A i, j \in DOMAIN plan.emails :
       (plan.emails[i].activity_date = plan.emails[j].activity_date
          /\ plan.emails[i].subject = plan.emails[j].subject) => i = j
  /\ \A i, j \in DOMAIN plan.meetings :
       (plan.meetings[i].start_datetime = plan.meetings[j].start_datetime
          /\ plan.meetings[i].subject = plan.meetings[j].subject) => i = j

\* the counts of C34 for the plans without twins
OneCreatePerDistinctItem ==
  (thr[0].pc = "applied" /\ NoTwin(plans[1].plan)) =>
    LET plan == plans[1].plan IN
    /\ createCalls = Len(plan.meetings) + Len(plan.emails)
    /\ stats.meetings_created = Len(plan.meetings)
    /\ stats.emails_created = Len(plan.emails)

\* ------------------------------------------------ counters and what they count
\* C35: at every moment of a run that is not pooled, meetings_created and
\* emails_created are the numbers of Events and Tasks this run's create calls
\* returned (each logged as created), scorecards_created is the number of
\* scorecards upserted, and failures is the number of entries log_error wrote
C35_CountersMatchCalls ==
  ~Pooled =>
    /\ stats.meetings_created
         = Cardinality({ r \in CreatedThisRun : r.object = "Event" })
    /\ stats.meetings_created = EventCount("meeting_created")
    /\ stats.emails_created
         = Cardinality({ r \in CreatedThisRun : r.object = "Task" })
    /\ stats.emails_created = EventCount("email_created")
    /\ stats.scorecards_created = EventCount("scorecard_upserted")
    /\ stats.failures = ErrorCount

\* a sequential run is under way in which meetings, emails and a scorecard
\* were created and a call failed
C35_Witness ==
  /\ ~Pooled
  /\ mainPc # "done"
  /\ stats.meetings_created > 0
  /\ stats.emails_created > 0
  /\ stats.scorecards_created > 0
  /\ stats.failures > 0

\* ------------------------------------------------- the ledger's connection
\* C36: when run() has ended, returned or raised, the ledger connection is
\* closed; at the step that closes it no call is queued and every thread, the
\* pool's workers included, is idle; and once it is closed no thread is at a
\* ledger call and the ledger does not change
C36_ClosedAfterAllWork ==
  /\ [](mainPc = "done" => ~connOpen)
  /\ [][ (connOpen /\ ~connOpen')
           => queue = << >> /\ \A t \in Threads : thr[t].pc = "idle" ]_vars
  /\ []((HasStore /\ ~connOpen) => \A t \in Threads : thr[t].pc \notin LedgerPcs)
  /\ [][ ~connOpen => ledger' = ledger ]_vars

\* a pooled run with a ledger has ended, its connection closed, every
\* selected candidate handled by a worker to an end
C36_Witness ==
  /\ HasStore
  /\ Pooled
  /\ mainPc = "done"
  /\ ~raised
  /\ ~connOpen
  /\ \A o \in Selected : cand[o] \in Terminal

====
